---------------------------- MODULE Spec2Model ----------------------------
(***************************************************************************)
(* DV360 reporting server (src/server.py): the report pipeline of          *)
(* dv_run_report and the helpers it is built from.                         *)
(*                                                                         *)
(* A Python str is a sequence of one-character strings.  A parameter that  *)
(* may be None, a str or a list of str is a tagged value (PyNone, PyStr,   *)
(* PyList), because the code branches on isinstance and on truthiness.     *)
(***************************************************************************)
EXTENDS Integers, Sequences, FiniteSets, TLC

VARIABLES
    SERVICE_ACCOUNT_JSON,   \* os.getenv("DV360_SERVICE_ACCOUNT"), read at import
    server,                 \* where main() is: "init", "building", "serving", "exited"
    exit_status,            \* <<>> while the process runs, <<n>> after sys.exit(n)
    _bid_manager_service,   \* the memoized client: 0 is None, n the n-th client built
    clients_built,          \* how many times discovery.build has returned a client
    DEFAULT_PARTNER_ID,     \* os.getenv("DV360_PARTNER_ID"), read at import
    _dv360_service,         \* the memoized entity client, as _bid_manager_service
    dv360_clients_built,    \* how many entity clients discovery.build has returned
    frame,                  \* per thread: the tool call it is executing
    calls,                  \* tool calls started so far
    fn_arg,     \* the argument tuple a helper function is applied to
    fn_ret,     \* what the helper returned (or raised) for fn_arg
    fn_again    \* what the helper returned for the related second input

fn_vars == <<fn_arg, fn_ret, fn_again>>
entity_globals == <<DEFAULT_PARTNER_ID, _dv360_service, dv360_clients_built>>
globals == <<SERVICE_ACCOUNT_JSON, server, exit_status, _bid_manager_service,
             clients_built, entity_globals>>
sys_vars == <<globals, frame, calls>>
vars == <<sys_vars, fn_vars>>

-----------------------------------------------------------------------------
(* Python values *)

PyNone == [t |-> "None"]
PyStr(s) == [t |-> "str", v |-> s]
PyList(l) == [t |-> "list", v |-> l]

\* bool(x) for None, a str or a list: None, "" and [] are falsy.
Truthy(x) == IF x.t = "None" THEN FALSE ELSE Len(x.v) > 0

\* What a call produced: a value, or an exception of a class with its str().
Returned(v) == [ok |-> TRUE, value |-> v]
Raised(cls, msg) == [ok |-> FALSE, cls |-> cls, msg |-> msg]
NotCalled == [ok |-> FALSE, cls |-> "", msg |-> "not called"]

\* The characters str.strip() removes, among those the inputs are drawn from.
Whitespace == {" ", "\t"}

\* Index of the first occurrence of character c in s, 0 when there is none.
RECURSIVE FindFrom(_, _, _)
FindFrom(s, c, i) ==
    IF i > Len(s) THEN 0
    ELSE IF s[i] = c THEN i
    ELSE FindFrom(s, c, i + 1)

\* str.split(c): the segments between the occurrences of c, empty ones kept.
RECURSIVE Split(_, _)
Split(s, c) ==
    LET i == FindFrom(s, c, 1) IN
    IF i = 0 THEN <<s>>
    ELSE <<SubSeq(s, 1, i - 1)>> \o Split(SubSeq(s, i + 1, Len(s)), c)

RECURSIVE LStrip(_)
LStrip(s) ==
    IF s # <<>> /\ Head(s) \in Whitespace THEN LStrip(Tail(s)) ELSE s

RECURSIVE RStrip(_)
RStrip(s) ==
    IF s # <<>> /\ s[Len(s)] \in Whitespace
    THEN RStrip(SubSeq(s, 1, Len(s) - 1))
    ELSE s

\* str.strip()
Strip(s) == RStrip(LStrip(s))

\* [x.strip() for x in s.split(',')]
SplitAndStrip(s) ==
    LET parts == Split(s, ",") IN [k \in 1..Len(parts) |-> Strip(parts[k])]

-----------------------------------------------------------------------------
(* format_date_for_api *)

UnpackError(n) ==
    IF n > 3 THEN "too many values to unpack (expected 3)"
    ELSE IF n = 2 THEN "not enough values to unpack (expected 3, got 2)"
    ELSE "not enough values to unpack (expected 3, got 1)"

\* As format_date_for_api, but unpacking the first three parts of any longer split.
format_date_first_three(date_str) ==
    LET parts == Split(date_str, "-") IN
    IF Len(parts) >= 3
    THEN Returned([year |-> parts[1], month |-> parts[2], day |-> parts[3]])
    ELSE Raised("ValueError", UnpackError(Len(parts)))

format_date_for_api(date_str) ==
    LET parts == Split(date_str, "-") IN
    IF Len(parts) = 3
    THEN Returned([year |-> parts[1], month |-> parts[2], day |-> parts[3]])
    ELSE Raised("ValueError", UnpackError(Len(parts)))

-----------------------------------------------------------------------------
(* prepare_filters *)

\* As FilterClauses, but the split segments are not stripped.
FilterClausesUnstripped(ids, type) ==
    IF Truthy(ids)
    THEN LET l == IF ids.t = "str" THEN Split(ids.v, ",") ELSE ids.v
         IN [k \in 1..Len(l) |-> [type |-> type, value |-> l[k]]]
    ELSE <<>>

\* One block "if ids: if isinstance(ids, str): ids = [...]; for id in ids: append".
FilterClauses(ids, type) ==
    IF Truthy(ids)
    THEN LET l == IF ids.t = "str" THEN SplitAndStrip(ids.v) ELSE ids.v
         IN [k \in 1..Len(l) |-> [type |-> type, value |-> l[k]]]
    ELSE <<>>

\* As prepare_filters, but the campaign block runs before the advertiser block.
prepare_filters_campaign_first(advertiser_ids, campaign_ids, insertion_order_ids, line_item_ids) ==
    FilterClauses(campaign_ids, "FILTER_MEDIA_PLAN")
    \o FilterClauses(advertiser_ids, "FILTER_ADVERTISER")
    \o FilterClauses(insertion_order_ids, "FILTER_INSERTION_ORDER")
    \o FilterClauses(line_item_ids, "FILTER_LINE_ITEM")

prepare_filters(advertiser_ids, campaign_ids, insertion_order_ids, line_item_ids) ==
    FilterClauses(advertiser_ids, "FILTER_ADVERTISER")
    \o FilterClauses(campaign_ids, "FILTER_MEDIA_PLAN")
    \o FilterClauses(insertion_order_ids, "FILTER_INSERTION_ORDER")
    \o FilterClauses(line_item_ids, "FILTER_LINE_ITEM")

-----------------------------------------------------------------------------
(* prepare_dimensions_and_metrics *)

\* As NormalizeField, but the elements of a list are stripped as well.
NormalizeFieldStripAll(x) ==
    IF x.t = "str" THEN SplitAndStrip(x.v)
    ELSE [k \in 1..Len(x.v) |-> Strip(x.v[k])]

\* One block "if isinstance(x, str): x = [e.strip() for e in x.split(',')]".
NormalizeField(x) == IF x.t = "str" THEN SplitAndStrip(x.v) ELSE x.v

prepare_dimensions_and_metrics(dimensions, metrics) ==
    <<NormalizeField(dimensions), NormalizeField(metrics)>>


-----------------------------------------------------------------------------
(* parse_csv_to_json *)

MaxOfSet(S) == CHOOSE i \in S : \A j \in S : i >= j

Digits == {"0", "1", "2", "3", "4", "5", "6", "7", "8", "9"}
DigitValue(c) ==
    CASE c = "0" -> 0 [] c = "1" -> 1 [] c = "2" -> 2 [] c = "3" -> 3
      [] c = "4" -> 4 [] c = "5" -> 5 [] c = "6" -> 6 [] c = "7" -> 7
      [] c = "8" -> 8 [] c = "9" -> 9

\* As MinOfTwo, for a page size kept within 1..b.
MinOfTwoAtLeastOne(a, b) == IF a < 1 THEN 1 ELSE IF b < a THEN b ELSE a

MinOfTwo(a, b) == IF a <= b THEN a ELSE b

\* str.replace(c, '', 1): s without the first occurrence of c.
RemoveFirst(s, c) ==
    LET i == FindFrom(s, c, 1) IN
    IF i = 0 THEN s ELSE SubSeq(s, 1, i - 1) \o SubSeq(s, i + 1, Len(s))

\* str.isdigit(), for strings of the characters the inputs are drawn from.
IsDigit(s) == s # <<>> /\ \A i \in 1..Len(s) : s[i] \in Digits

\* The number a string of digits writes.
RECURSIVE DigitsValue(_)
DigitsValue(s) ==
    IF s = <<>> THEN 0
    ELSE 10 * DigitsValue(SubSeq(s, 1, Len(s) - 1)) + DigitValue(s[Len(s)])

PyInt(n) == [t |-> "int", v |-> n]
\* A float written with scale digits after the point: num / 10^scale.
PyFloat(num, scale) == [t |-> "float", num |-> num, scale |-> scale]

\* int(value) and float(value) for a value that passed the isdigit test: it is
\* made of digits, at most one '-' and at most one '.'.  Both accept the '-'
\* only in front and raise ValueError otherwise.
ConvertNumber(value) ==
    LET negative == value[1] = "-"
        body == IF negative THEN Tail(value) ELSE value
        dot == FindFrom(body, ".", 1)
        digits == RemoveFirst(body, ".")
        sign == IF negative THEN -1 ELSE 1
    IN IF ~IsDigit(digits) THEN Raised("ValueError", "invalid literal")
       ELSE IF dot = 0 THEN Returned(PyInt(sign * DigitsValue(digits)))
       ELSE Returned(PyFloat(sign * DigitsValue(digits), Len(body) - dot))

\* A cell loop that only ever tries int(value).
ParseCellIntOnly(value) ==
    IF value = PyNone \/ value.v = <<>> THEN PyNone
    ELSE IF IsDigit(RemoveFirst(RemoveFirst(value.v, "."), "-"))
            /\ FindFrom(value.v, ".", 1) = 0
    THEN LET n == ConvertNumber(value.v) IN IF n.ok THEN n.value ELSE value
    ELSE value

\* The body of the loop over row.items() for one cell (value is None for a
\* cell the row does not have).
ParseCell(value) ==
    IF value = PyNone \/ value.v = <<>> THEN PyNone
    ELSE IF IsDigit(RemoveFirst(RemoveFirst(value.v, "."), "-"))
    THEN LET n == ConvertNumber(value.v) IN IF n.ok THEN n.value ELSE value
    ELSE value

\* The lines io.StringIO yields: the text between newlines, no line after a
\* final newline.
CsvLines(content) ==
    LET parts == Split(content, "\n") IN
    IF parts[Len(parts)] = <<>> THEN SubSeq(parts, 1, Len(parts) - 1) ELSE parts

\* csv.reader on one line without quotes: an empty line is the row [].
CsvRow(line) == IF line = <<>> THEN <<>> ELSE Split(line, ",")

\* dict(zip(fieldnames, row)) alone, without the restval completion.
RowDictZipOnly(fieldnames, row) ==
    LET present == 1..MinOfTwo(Len(fieldnames), Len(row)) IN
    [key \in {fieldnames[i] : i \in present} |->
        PyStr(row[MaxOfSet({i \in present : fieldnames[i] = key})])]

\* dict(zip(fieldnames, row)) completed with restval None: the cell of each
\* column name, the last column of that name winning.
RowDict(fieldnames, row) ==
    [key \in {fieldnames[i] : i \in 1..Len(fieldnames)} |->
        LET last == MaxOfSet({i \in 1..Len(fieldnames) : fieldnames[i] = key})
        IN IF last <= Len(row) THEN PyStr(row[last]) ELSE PyNone]

parse_csv_to_json(csv_content) ==
    LET lines == CsvLines(csv_content)
        rows == [i \in 1..Len(lines) |-> CsvRow(lines[i])]
        fieldnames == IF rows = <<>> THEN <<>> ELSE rows[1]
        NotBlank(r) == r # <<>>
        records == SelectSeq(Tail(rows), NotBlank)
        \* a row longer than the header puts the list of the extra cells under
        \* the key None, and list has no replace()
        TooLong(r) == Len(r) > Len(fieldnames)
    IN IF rows = <<>> THEN Returned(<<>>)
       ELSE IF SelectSeq(records, TooLong) # <<>>
       THEN Raised("AttributeError", "'list' object has no attribute 'replace'")
       ELSE Returned([i \in 1..Len(records) |->
                [key \in DOMAIN RowDict(fieldnames, records[i]) |->
                    ParseCell(RowDict(fieldnames, records[i])[key])]])

-----------------------------------------------------------------------------
(* The remote services, as the outcomes a blocking request can have *)

EmptyDict == <<>>

\* d[k1][k2]...: the value, or the KeyError of the first missing key.
RECURSIVE GetPath(_, _)
GetPath(d, keys) ==
    IF keys = <<>> THEN Returned(d)
    ELSE IF Head(keys) \in DOMAIN d THEN GetPath(d[Head(keys)], Tail(keys))
    ELSE Raised("KeyError", "'" \o Head(keys) \o "'")

QueryIds == {"q1", "q2"}

CreateOutcomes ==
    {Returned([queryId |-> q]) : q \in QueryIds}
    \cup {Returned(EmptyDict),
          Raised("HttpError", "<HttpError 400 \"Invalid date range\">")}

RunResponse(state, report_id, path) ==
    [metadata |-> [status |-> [state |-> state], googleCloudStoragePath |-> path],
     key |-> [reportId |-> report_id]]

RunOutcomes ==
    {Returned(RunResponse("DONE", "r1", "gs://bucket/r1.csv")),
     Returned(RunResponse("RUNNING", "r2", "gs://bucket/r2.csv")),
     Returned([metadata |-> [status |-> [state |-> "FAILED", message |-> "quota exceeded"]],
               key |-> [reportId |-> "r3"]]),
     Returned([metadata |-> [status |-> [state |-> "FAILED"]]]),
     Returned([metadata |-> [status |-> [state |-> "DONE"],
                             googleCloudStoragePath |-> "gs://bucket/r4.csv"]]),
     Returned([metadata |-> [status |-> [state |-> "QUEUED"]],
               key |-> [reportId |-> "r5"]]),
     Returned([metadata |-> [status |-> EmptyDict]]),
     Returned([metadata |-> [status |-> EmptyDict,
                             googleCloudStoragePath |-> "gs://bucket/r6.csv"],
               key |-> [reportId |-> "r6"]]),
     Returned(EmptyDict),
     Raised("HttpError", "<HttpError 503 \"Backend error\">")}

\* "date,impressions\n2025-01-01,100\n2025-01-02,200"
TwoRowCsv ==
    <<"d", "a", "t", "e", ",", "i", "m", "p", "r", "e", "s", "s", "i", "o", "n", "s", "\n",
    "2", "0", "2", "5", "-", "0", "1", "-", "0", "1", ",", "1", "0", "0", "\n",
    "2", "0", "2", "5", "-", "0", "1", "-", "0", "2", ",", "2", "0", "0">>

CsvSamples ==
    {TwoRowCsv,
     <<>>,
     <<"d", ",", "n", "\n", "a", ",", "1", ",", "2", "\n">>,
     <<"d", ",", "n", "\n", "\n", "b", ",", "-", "2", ".", "5", "\n", ",", "0", "0", "7", "\n">>}

DownloadOutcomes ==
    {Returned(c) : c \in CsvSamples}
    \cup {Raised("URLError", "<urlopen error timed out>"),
          Raised("UnicodeDecodeError", "'utf-8' codec can't decode byte 0xff")}

\* What from_service_account_info and discovery.build can do with a blob that
\* is valid JSON.
BuildOutcomes ==
    {Returned("client"),
     Raised("ValueError", "Service account info was not in the expected format")}

-----------------------------------------------------------------------------
(* get_bid_manager_service *)

\* Lines 69-80: the configuration errors of a call that found no client.
CredentialCheck ==
    IF SERVICE_ACCOUNT_JSON = "unset"
    THEN Raised("ValueError", "DV360_SERVICE_ACCOUNT environment variable not set. "
                  \o "Please set it to your service account JSON credentials.")
    ELSE IF SERVICE_ACCOUNT_JSON = "invalid"
    THEN Raised("ValueError",
                "Invalid JSON in DV360_SERVICE_ACCOUNT environment variable: "
                  \o "Expecting value: line 1 column 1 (char 0)")
    ELSE Returned("service_account_info")

-----------------------------------------------------------------------------
(* dv_run_report *)

Threads == {1, 2}

NoArgs == EmptyDict
NoResult == [success |-> FALSE, error |-> "", pending |-> TRUE]

\* The local variables of a call, before any is bound.
Locals ==
    [service |-> 0, start_date_dict |-> EmptyDict, end_date_dict |-> EmptyDict,
     dimensions_list |-> <<>>, metrics_list |-> <<>>, filters |-> <<>>,
     query_id |-> "", report_response |-> EmptyDict, gcs_path |-> "",
     partner_id |-> PyNone]

LocalNames == DOMAIN Locals

IdleFrame ==
    [k \in LocalNames \cup {"tool", "pc", "args", "result", "escaped", "events",
                            "warnings", "built"} |->
        CASE k = "pc" -> "idle"
          [] k = "tool" -> ""
          \* whether this call has constructed a client
          [] k = "built" -> FALSE
          [] k = "args" -> NoArgs
          [] k = "result" -> NoResult
          [] k = "escaped" -> FALSE
          [] k = "events" -> <<>>
          [] k = "warnings" -> 0
          [] OTHER -> Locals[k]]

\* The frame with its locals gone out of scope.
Unwind(f) == [k \in DOMAIN f |-> IF k \in LocalNames THEN Locals[k] ELSE f[k]]

\* "return r" inside the try block.
Return(f, r) == [Unwind(f) EXCEPT !.pc = "returned", !.result = r]

\* As Catches, for a handler written "except ValueError".
CatchesValueErrorOnly(cls) == cls = "ValueError"

\* The classes "except Exception" catches: every class the steps raise derives
\* from Exception.
Catches(cls) ==
    cls \in {"ValueError", "KeyError", "AttributeError", "HttpError", "URLError",
             "UnicodeDecodeError"}

\* As Except, for a handler that logs the error and re-raises it.
ExceptReraise(f, e) == [Unwind(f) EXCEPT !.pc = "raised", !.escaped = TRUE]

\* As Except, for a handler that adds the id of the query once it is known.
ExceptWithQueryId(f, e) ==
    IF ~Catches(e.cls) THEN [Unwind(f) EXCEPT !.pc = "raised", !.escaped = TRUE]
    ELSE IF f.query_id # ""
    THEN Return(f, [success |-> FALSE, error |-> e.msg, query_id |-> f.query_id])
    ELSE Return(f, [success |-> FALSE, error |-> e.msg])

\* Lines 1339-1344: an exception raised in the try block.
Except(f, e) ==
    IF Catches(e.cls)
    THEN Return(f, [success |-> FALSE, error |-> e.msg])
    ELSE [Unwind(f) EXCEPT !.pc = "raised", !.escaped = TRUE]

Log(f, event) == [f EXCEPT !.events = Append(@, event)]

\* As Prepare, for a tool that refuses a request without filters.
PrepareRejectsNoFilters(f) ==
    LET a == f.args
        start == format_date_for_api(a.start_date)
        end == format_date_for_api(a.end_date)
        fields == prepare_dimensions_and_metrics(a.dimensions, a.metrics)
        filters == prepare_filters(a.advertiser_ids, a.campaign_ids,
                                   a.insertion_order_ids, a.line_item_ids)
    IN IF ~start.ok THEN Except(f, start)
       ELSE IF ~end.ok THEN Except(f, end)
       ELSE IF filters = <<>>
       THEN Return(f, [success |-> FALSE, error |-> "No filters specified"])
       ELSE [f EXCEPT !.pc = "create",
                      !.start_date_dict = start.value,
                      !.end_date_dict = end.value,
                      !.dimensions_list = fields[1],
                      !.metrics_list = fields[2],
                      !.filters = filters]

\* As Prepare, for a tool that formats the end date only when it reads the
\* response: the query is submitted with the start date alone.
PrepareEndDateLater(f) ==
    LET a == f.args
        start == format_date_for_api(a.start_date)
        end == format_date_for_api(a.end_date)
        fields == prepare_dimensions_and_metrics(a.dimensions, a.metrics)
        filters == prepare_filters(a.advertiser_ids, a.campaign_ids,
                                   a.insertion_order_ids, a.line_item_ids)
    IN IF ~start.ok THEN Except(f, start)
       ELSE [f EXCEPT !.pc = "create",
                      !.start_date_dict = start.value,
                      !.end_date_dict = IF end.ok THEN end.value ELSE EmptyDict,
                      !.dimensions_list = fields[1],
                      !.metrics_list = fields[2],
                      !.filters = filters,
                      !.warnings = IF filters = <<>> THEN @ + 1 ELSE @]

\* Lines 1251-1267: dates, dimensions and metrics, filters, the warning.
Prepare(f) ==
    LET a == f.args
        start == format_date_for_api(a.start_date)
        end == format_date_for_api(a.end_date)
        fields == prepare_dimensions_and_metrics(a.dimensions, a.metrics)
        filters == prepare_filters(a.advertiser_ids, a.campaign_ids,
                                   a.insertion_order_ids, a.line_item_ids)
    IN IF ~start.ok THEN Except(f, start)
       ELSE IF ~end.ok THEN Except(f, end)
       ELSE [f EXCEPT !.pc = "create",
                      !.start_date_dict = start.value,
                      !.end_date_dict = end.value,
                      !.dimensions_list = fields[1],
                      !.metrics_list = fields[2],
                      !.filters = filters,
                      !.warnings = IF filters = <<>> THEN @ + 1 ELSE @]

\* As query_obj, with a range that ends on its start date.
query_obj_single_day(f) ==
    [metadata |-> [title |-> f.args.report_name,
                   dataRange |-> [range |-> "CUSTOM_DATES",
                                  customStartDate |-> f.start_date_dict,
                                  customEndDate |-> f.start_date_dict],
                   format |-> "CSV"],
     params |-> [type |-> "STANDARD",
                 groupBys |-> f.dimensions_list,
                 filters |-> f.filters,
                 metrics |-> f.metrics_list],
     schedule |-> [frequency |-> "ONE_TIME"]]

\* Lines 1270-1289.
query_obj(f) ==
    [metadata |-> [title |-> f.args.report_name,
                   dataRange |-> [range |-> "CUSTOM_DATES",
                                  customStartDate |-> f.start_date_dict,
                                  customEndDate |-> f.end_date_dict],
                   format |-> "CSV"],
     params |-> [type |-> "STANDARD",
                 groupBys |-> f.dimensions_list,
                 filters |-> f.filters,
                 metrics |-> f.metrics_list],
     schedule |-> [frequency |-> "ONE_TIME"]]

\* As Created, but a failed create is submitted again.
CreatedWithRetry(f, out) ==
    IF ~out.ok THEN [f EXCEPT !.pc = "create"]
    ELSE LET id == GetPath(out.value, <<"queryId">>) IN
         IF ~id.ok THEN Except(f, id)
         ELSE [f EXCEPT !.pc = "run", !.query_id = id.value]

\* Lines 1294-1295, once queries().create().execute() has ended with out.
Created(f, out) ==
    IF ~out.ok THEN Except(f, out)
    ELSE LET id == GetPath(out.value, <<"queryId">>) IN
         IF ~id.ok THEN Except(f, id)
         ELSE [f EXCEPT !.pc = "run", !.query_id = id.value]

\* As run_request, for a run that is started and then polled.
run_request_asynchronous(f) == [queryId |-> f.query_id, synchronous |-> FALSE]

\* Lines 1300-1303: the request of queries().run().
run_request(f) == [queryId |-> f.query_id, synchronous |-> TRUE]

\* As ReportFailed, without the query id.
ReportFailedWithoutId(f, status) ==
    LET error_msg == IF "message" \in DOMAIN status
                     THEN status.message ELSE "Unknown error"
    IN [success |-> FALSE,
        error |-> "Report generation failed: " \o error_msg]

\* Lines 1306-1313: the record returned for a run in state FAILED.
ReportFailed(f, status) ==
    LET error_msg == IF "message" \in DOMAIN status
                     THEN status.message ELSE "Unknown error"
    IN [success |-> FALSE,
        error |-> "Report generation failed: " \o error_msg,
        query_id |-> f.query_id]

\* As Ran, for a tool that downloads only the report of a run in state DONE.
RanDoneOnly(f, out) ==
    IF ~out.ok THEN Except(f, out)
    ELSE LET resp == out.value
             state == GetPath(resp, <<"metadata", "status", "state">>)
             report_id == GetPath(resp, <<"key", "reportId">>)
             path == GetPath(resp, <<"metadata", "googleCloudStoragePath">>)
         IN IF ~state.ok THEN Except(f, state)
            ELSE IF state.value # "DONE"
            THEN Return(f, ReportFailed(f, resp.metadata.status))
            ELSE IF ~report_id.ok THEN Except(f, report_id)
            ELSE IF ~path.ok THEN Except(f, path)
            ELSE [f EXCEPT !.pc = "download",
                           !.report_response = resp,
                           !.gcs_path = path.value]

\* Lines 1303-1318, once queries().run().execute() has ended with out.
Ran(f, out) ==
    IF ~out.ok THEN Except(f, out)
    ELSE LET resp == out.value
             state == GetPath(resp, <<"metadata", "status", "state">>)
             report_id == GetPath(resp, <<"key", "reportId">>)
             path == GetPath(resp, <<"metadata", "googleCloudStoragePath">>)
         IN IF ~state.ok THEN Except(f, state)
            ELSE IF state.value = "FAILED"
            THEN Return(f, ReportFailed(f, resp.metadata.status))
            ELSE IF ~report_id.ok THEN Except(f, report_id)
            ELSE IF ~path.ok THEN Except(f, path)
            ELSE [f EXCEPT !.pc = "download",
                           !.report_response = resp,
                           !.gcs_path = path.value]

\* As ReportSucceeded, but echoing the start date as the end date too.
ReportSucceededStartDateTwice(f, parsed_data) ==
    [success |-> TRUE,
     data |-> parsed_data,
     metadata |-> [query_id |-> f.query_id,
                   report_id |-> f.report_response.key.reportId,
                   date_range |-> [start_date |-> f.args.start_date,
                                   end_date |-> f.args.start_date],
                   dimensions |-> f.dimensions_list,
                   metrics |-> f.metrics_list,
                   filters |-> f.filters,
                   row_count |-> Len(parsed_data)]]

\* Lines 1322-1337: the record returned for the decoded rows.
ReportSucceeded(f, parsed_data) ==
    [success |-> TRUE,
     data |-> parsed_data,
     metadata |-> [query_id |-> f.query_id,
                   report_id |-> f.report_response.key.reportId,
                   date_range |-> [start_date |-> f.args.start_date,
                                   end_date |-> f.args.end_date],
                   dimensions |-> f.dimensions_list,
                   metrics |-> f.metrics_list,
                   filters |-> f.filters,
                   row_count |-> Len(parsed_data)]]

\* Lines 1319-1337, once urlopen(...).read().decode() has ended with out.
Downloaded(f, out) ==
    IF ~out.ok THEN Except(f, out)
    ELSE LET parsed == parse_csv_to_json(out.value) IN
         IF ~parsed.ok THEN Except(f, parsed)
         ELSE Return(f, ReportSucceeded(f, parsed.value))


-----------------------------------------------------------------------------
(* The entity tools: dv_list_* and dv_get_* *)

ListTools == {"dv_list_advertisers", "dv_list_campaigns",
              "dv_list_insertion_orders", "dv_list_line_items",
              "dv_list_creatives"}
GetTools == {"dv_get_campaign", "dv_get_insertion_order", "dv_get_line_item",
             "dv_get_creative"}
EntityTools == ListTools \cup GetTools

PyDict(d) == [t |-> "dict", v |-> d]

\* The method of the Display & Video 360 client a tool executes.
ApiMethod(tool) ==
    CASE tool = "dv_list_advertisers" -> "advertisers.list"
      [] tool = "dv_list_campaigns" -> "advertisers.campaigns.list"
      [] tool = "dv_get_campaign" -> "advertisers.campaigns.get"
      [] tool = "dv_list_insertion_orders" -> "advertisers.insertionOrders.list"
      [] tool = "dv_get_insertion_order" -> "advertisers.insertionOrders.get"
      [] tool = "dv_list_line_items" -> "advertisers.lineItems.list"
      [] tool = "dv_get_line_item" -> "advertisers.lineItems.get"
      [] tool = "dv_list_creatives" -> "advertisers.creatives.list"
      [] tool = "dv_get_creative" -> "advertisers.creatives.get"

\* The key of the entities in a list response, and in the record returned.
ListKey(tool) ==
    CASE tool = "dv_list_advertisers" -> "advertisers"
      [] tool = "dv_list_campaigns" -> "campaigns"
      [] tool = "dv_list_insertion_orders" -> "insertionOrders"
      [] tool = "dv_list_line_items" -> "lineItems"
      [] tool = "dv_list_creatives" -> "creatives"
OutListKey(tool) ==
    CASE tool = "dv_list_advertisers" -> "advertisers"
      [] tool = "dv_list_campaigns" -> "campaigns"
      [] tool = "dv_list_insertion_orders" -> "insertion_orders"
      [] tool = "dv_list_line_items" -> "line_items"
      [] tool = "dv_list_creatives" -> "creatives"

\* The keyword of the entity id in a get request, and the key of the entity
\* in the record returned.
IdParam(tool) ==
    CASE tool = "dv_get_campaign" -> "campaignId"
      [] tool = "dv_get_insertion_order" -> "insertionOrderId"
      [] tool = "dv_get_line_item" -> "lineItemId"
      [] tool = "dv_get_creative" -> "creativeId"
EntityKey(tool) ==
    CASE tool = "dv_get_campaign" -> "campaign"
      [] tool = "dv_get_insertion_order" -> "insertion_order"
      [] tool = "dv_get_line_item" -> "line_item"
      [] tool = "dv_get_creative" -> "creative"

\* The fields of a formatted entity: <<key returned, key read, default>>.
None3(out, key) == <<out, key, PyNone>>
Dict3(out, key) == <<out, key, PyDict(EmptyDict)>>
ItemFields(tool) ==
    CASE tool = "dv_list_advertisers" ->
           <<None3("advertiser_id", "advertiserId"),
             None3("advertiser_name", "displayName"),
             None3("partner_id", "partnerId"),
             None3("entity_status", "entityStatus"),
             None3("update_time", "updateTime")>>
      [] tool = "dv_list_campaigns" ->
           <<None3("campaign_id", "campaignId"),
             None3("campaign_name", "displayName"),
             None3("advertiser_id", "advertiserId"),
             None3("entity_status", "entityStatus"),
             None3("update_time", "updateTime"),
             Dict3("campaign_goal", "campaignGoal"),
             Dict3("campaign_flight", "campaignFlight"),
             Dict3("frequency_cap", "frequencyCap")>>
      [] tool = "dv_list_insertion_orders" ->
           <<None3("insertion_order_id", "insertionOrderId"),
             None3("insertion_order_name", "displayName"),
             None3("advertiser_id", "advertiserId"),
             None3("campaign_id", "campaignId"),
             None3("entity_status", "entityStatus"),
             None3("update_time", "updateTime"),
             Dict3("pacing", "pacing"),
             Dict3("frequency_cap", "frequencyCap"),
             Dict3("budget", "budget"),
             None3("insertion_order_type", "insertionOrderType")>>
      [] tool = "dv_list_line_items" ->
           <<None3("line_item_id", "lineItemId"),
             None3("line_item_name", "displayName"),
             None3("advertiser_id", "advertiserId"),
             None3("campaign_id", "campaignId"),
             None3("insertion_order_id", "insertionOrderId"),
             None3("entity_status", "entityStatus"),
             None3("line_item_type", "lineItemType"),
             None3("update_time", "updateTime"),
             Dict3("flight", "flight"),
             Dict3("budget", "budget"),
             Dict3("pacing", "pacing"),
             Dict3("frequency_cap", "frequencyCap"),
             Dict3("bid_strategy", "bidStrategy")>>
      [] tool = "dv_list_creatives" ->
           <<None3("creative_id", "creativeId"),
             None3("creative_name", "displayName"),
             None3("advertiser_id", "advertiserId"),
             None3("creative_type", "creativeType"),
             None3("entity_status", "entityStatus"),
             None3("update_time", "updateTime"),
             Dict3("dimensions", "dimensions"),
             <<"creative_attributes", "creativeAttributes", PyList(<<>>)>>,
             None3("hosting_source", "hostingSource")>>

\* dict.get(key, default)
Get(d, key, default) == IF key \in DOMAIN d THEN d[key] ELSE default

\* The dict appended to the formatted list for one entity of the response.
FormatItem(tool, item) ==
    LET fields == ItemFields(tool)
        Place(out) == CHOOSE i \in 1..Len(fields) : fields[i][1] = out
    IN [out \in {fields[i][1] : i \in 1..Len(fields)} |->
           Get(item, fields[Place(out)][2], fields[Place(out)][3])]

\* sub in s, for Python strings written as TLA+ strings.
Contains(s, sub) ==
    \E i \in 1..(Len(s) - Len(sub) + 1) : SubSeq(s, i, i + Len(sub) - 1) = sub

LowerChar(c) ==
    CASE c = "A" -> "a" [] c = "B" -> "b" [] c = "C" -> "c" [] c = "D" -> "d"
      [] c = "E" -> "e" [] c = "F" -> "f" [] c = "G" -> "g" [] c = "H" -> "h"
      [] c = "I" -> "i" [] c = "J" -> "j" [] c = "K" -> "k" [] c = "L" -> "l"
      [] c = "M" -> "m" [] c = "N" -> "n" [] c = "O" -> "o" [] c = "P" -> "p"
      [] c = "Q" -> "q" [] c = "R" -> "r" [] c = "S" -> "s" [] c = "T" -> "t"
      [] c = "U" -> "u" [] c = "V" -> "v" [] c = "W" -> "w" [] c = "X" -> "x"
      [] c = "Y" -> "y" [] c = "Z" -> "z" [] OTHER -> c

\* sub in s.lower(): lower() maps s character by character, so sub is found
\* where the lowered characters of a window of s spell it.
InLower(sub, s) ==
    \E i \in 1..(Len(s) - Len(sub) + 1) :
        \A j \in 1..Len(sub) :
            LowerChar(SubSeq(s, i + j - 1, i + j - 1)) = SubSeq(sub, j, j)

\* The hint of the permission branch of each tool.
PermissionMessage(tool) ==
    CASE tool = "dv_list_advertisers" ->
           "Permission denied. Ensure your service account has Display & "
             \o "Video 360 API access and is linked to the partner account."
      [] tool \in ListTools \ {"dv_list_advertisers"} ->
           "Permission denied. Ensure your service account has access to this advertiser."
      [] tool = "dv_get_campaign" ->
           "Permission denied. Ensure your service account has access to this campaign."
      [] tool = "dv_get_insertion_order" ->
           "Permission denied. Ensure your service account has access to this insertion order."
      [] tool = "dv_get_line_item" ->
           "Permission denied. Ensure your service account has access to this line item."
      [] tool = "dv_get_creative" ->
           "Permission denied. Ensure your service account has access to this creative."

\* The hint of the not-found branch, an f-string over the ids of the call.
NotFoundMessage(f) ==
    LET ForAdvertiser(what) ==
            what \o " " \o f.args.entity_id \o " not found for advertiser "
                 \o f.args.advertiser_id \o "."
    IN CASE f.tool = "dv_list_advertisers" ->
              "Partner ID " \o f.partner_id.v \o " not found. Double-check the partner ID."
         [] f.tool \in ListTools \ {"dv_list_advertisers"} ->
              "Advertiser ID " \o f.args.advertiser_id \o " not found."
         [] f.tool = "dv_get_campaign" -> ForAdvertiser("Campaign")
         [] f.tool = "dv_get_insertion_order" -> ForAdvertiser("Insertion order")
         [] f.tool = "dv_get_line_item" -> ForAdvertiser("Line item")
         [] f.tool = "dv_get_creative" -> ForAdvertiser("Creative")

\* As EntityExcept, testing for not found before permission.
EntityExceptNotFoundFirst(f, e) ==
    LET error_msg == e.msg IN
    IF ~Catches(e.cls) THEN [Unwind(f) EXCEPT !.pc = "raised", !.escaped = TRUE]
    ELSE IF InLower("not found", error_msg) \/ Contains(error_msg, "404")
    THEN Return(f, [success |-> FALSE, error |-> error_msg,
                    message |-> NotFoundMessage(f)])
    ELSE IF InLower("permission", error_msg) \/ Contains(error_msg, "403")
    THEN Return(f, [success |-> FALSE, error |-> error_msg,
                    message |-> PermissionMessage(f.tool)])
    ELSE Return(f, [success |-> FALSE, error |-> error_msg])

\* The except block of an entity tool (lines 376-397 and its eight copies).
EntityExcept(f, e) ==
    LET error_msg == e.msg IN
    IF ~Catches(e.cls) THEN [Unwind(f) EXCEPT !.pc = "raised", !.escaped = TRUE]
    ELSE IF InLower("permission", error_msg) \/ Contains(error_msg, "403")
    THEN Return(f, [success |-> FALSE, error |-> error_msg,
                    message |-> PermissionMessage(f.tool)])
    ELSE IF InLower("not found", error_msg) \/ Contains(error_msg, "404")
    THEN Return(f, [success |-> FALSE, error |-> error_msg,
                    message |-> NotFoundMessage(f)])
    ELSE Return(f, [success |-> FALSE, error |-> error_msg])

\* The keyword arguments of the request: params of a list tool, the two ids
\* of a get tool.
EntityParams(f) ==
    LET a == f.args
        With(d, key, arg) ==
            IF key \in DOMAIN a /\ Truthy(a[key]) THEN (arg :> a[key].v) @@ d ELSE d
        scope == IF f.tool = "dv_list_advertisers"
                 THEN [partnerId |-> f.partner_id.v,
                       pageSize |-> MinOfTwo(a.page_size, 100)]
                 ELSE [advertiserId |-> a.advertiser_id,
                       pageSize |-> MinOfTwo(a.page_size, 100)]
    IN IF f.tool \in ListTools
       THEN With(With(scope, "filter", "filter"), "order_by", "orderBy")
       ELSE (IdParam(f.tool) :> a.entity_id) @@ [advertiserId |-> a.advertiser_id]

\* As EntitySucceeded, for list tools that format only the entities that
\* carry their id.
EntitySucceededIdentifiedOnly(f, result) ==
    LET entities == SelectSeq(Get(result, ListKey(f.tool), <<>>),
                              LAMBDA e : ItemFields(f.tool)[1][2] \in DOMAIN e)
        formatted == [i \in 1..Len(entities) |-> FormatItem(f.tool, entities[i])]
        scope == IF f.tool = "dv_list_advertisers" THEN "partner_id"
                 ELSE "advertiser_id"
    IN IF f.tool \in ListTools
       THEN Return(f,
              [k \in {"success", OutListKey(f.tool), "count", scope,
                      "next_page_token"} |->
                 CASE k = "success" -> TRUE
                   [] k = "count" -> Len(formatted)
                   [] k = "next_page_token" -> Get(result, "nextPageToken", PyNone)
                   [] k = scope -> IF f.tool = "dv_list_advertisers"
                                   THEN f.partner_id.v ELSE f.args.advertiser_id
                   [] OTHER -> formatted])
       ELSE Return(f, [k \in {"success", EntityKey(f.tool)} |->
                          IF k = "success" THEN TRUE ELSE result])

\* The record a tool returns for the response of its request.
EntitySucceeded(f, result) ==
    LET entities == Get(result, ListKey(f.tool), <<>>)
        formatted == [i \in 1..Len(entities) |-> FormatItem(f.tool, entities[i])]
        scope == IF f.tool = "dv_list_advertisers" THEN "partner_id"
                 ELSE "advertiser_id"
    IN IF f.tool \in ListTools
       THEN Return(f,
              [k \in {"success", OutListKey(f.tool), "count", scope,
                      "next_page_token"} |->
                 CASE k = "success" -> TRUE
                   [] k = "count" -> Len(formatted)
                   [] k = "next_page_token" -> Get(result, "nextPageToken", PyNone)
                   [] k = scope -> IF f.tool = "dv_list_advertisers"
                                   THEN f.partner_id.v ELSE f.args.advertiser_id
                   [] OTHER -> formatted])
       ELSE Return(f, [k \in {"success", EntityKey(f.tool)} |->
                          IF k = "success" THEN TRUE ELSE result])

\* Responses of the Display & Video 360 service.  An entity carries its id
\* under the first key the tool reads; the second entity has a name only.
FirstEntity(tool) ==
    (ItemFields(tool)[1][2] :> PyStr("1"))
    @@ [displayName |-> PyStr("First"), advertiserId |-> PyStr("77"),
        entityStatus |-> PyStr("ENTITY_STATUS_ACTIVE"),
        frequencyCap |-> PyDict([unlimited |-> TRUE])]
SecondEntity == [displayName |-> PyStr("Second")]

EntityErrors ==
    {Raised("HttpError", "<HttpError 403 \"The caller does not have permission\">"),
     Raised("HttpError", "<HttpError 404 \"Requested entity was not found.\">"),
     Raised("HttpError", "<HttpError 404 \"Not found or permission missing\">"),
     Raised("HttpError", "<HttpError 400 \"Invalid value 14035\">"),
     Raised("HttpError", "<HttpError 500 \"Internal error\">"),
     Raised("ValueError", "PERMISSION_DENIED: insufficient scopes"),
     Raised("KeyError", "Advertiser Not Found")}

EntityOutcomes(tool) ==
    EntityErrors
    \cup IF tool \in ListTools
         THEN {Returned(EmptyDict),
               Returned((ListKey(tool) :> <<FirstEntity(tool)>>)),
               Returned((ListKey(tool) :> <<FirstEntity(tool), SecondEntity>>)
                        @@ [nextPageToken |-> PyStr("page2")])}
         ELSE {Returned([displayName |-> PyStr("First"),
                         entityStatus |-> PyStr("ENTITY_STATUS_PAUSED")])}

-----------------------------------------------------------------------------
(* The calls the model makes *)

MaxCalls == 2

StartDates == {<<"2", "0", "2", "5", "-", "0", "1", "-", "0", "1">>,
               <<"2", "0", "2", "5", "-", "0", "2", "-", "0", "1">>,
               <<"2", "0", "2", "5", "/", "0", "1", "/", "0", "1">>}
EndDates == {<<"2", "0", "2", "5", "-", "0", "1", "-", "3", "1">>,
             <<"2", "0", "2", "5", "-", "0", "1", "-", "3", "1", "-">>}
Dimensions == {PyStr(<<"F", "I", "L", "T", "E", "R", "_", "D", "A", "T", "E", ",", " ", "F", "I", "L", "T", "E", "R", "_", "A", "D", "V", "E", "R", "T", "I", "S", "E", "R">>),
               PyList(<<<<"F", "I", "L", "T", "E", "R", "_", "D", "A", "T", "E">>, <<" ", "F", "I", "L", "T", "E", "R", "_", "A", "D", "V", "E", "R", "T", "I", "S", "E", "R">>>>)}
Metrics == {PyStr(<<"M", "E", "T", "R", "I", "C", "_", "I", "M", "P", "R", "E", "S", "S", "I", "O", "N", "S", ",", "M", "E", "T", "R", "I", "C", "_", "C", "L", "I", "C", "K", "S">>), PyList(<<<<"M", "E", "T", "R", "I", "C", "_", "I", "M", "P", "R", "E", "S", "S", "I", "O", "N", "S">>>>)}
\* advertiser_ids, campaign_ids, insertion_order_ids, line_item_ids
IdArgs ==
    {<<PyNone, PyNone, PyNone, PyNone>>,
     <<PyStr(<<>>), PyNone, PyList(<<>>), PyNone>>,
     <<PyStr(<<"1", "2", "3", ",", " ", "4", "5", "6">>), PyNone, PyNone, PyNone>>,
     <<PyList(<<<<"1", "2", "3">>, <<" ", "4", "5", "6">>>>), PyStr(<<"7">>), PyNone, PyNone>>,
     <<PyStr(<<"1", "2", "3", ",", " ", "4", "5", "6">>), PyList(<<<<"7">>>>), PyStr(<<"8", ",">>), PyList(<<<<"9">>>>)>>}
ReportNames == {"MCP Report", "Weekly"}

CallArgs ==
    {[start_date |-> sd, end_date |-> ed, dimensions |-> d, metrics |-> m,
      advertiser_ids |-> ids[1], campaign_ids |-> ids[2],
      insertion_order_ids |-> ids[3], line_item_ids |-> ids[4],
      report_name |-> n] :
        sd \in StartDates, ed \in EndDates, d \in Dimensions, m \in Metrics,
        ids \in IdArgs, n \in ReportNames}

-----------------------------------------------------------------------------
(* main: initialize_server, then mcp.run *)

\* As StartupCheck, for an initialize_server that logs the failure and
\* returns.
StartupCheckWithoutExit ==
    /\ server = "init"
    /\ server' = IF _bid_manager_service # 0 THEN "serving"
                 ELSE IF CredentialCheck.ok THEN "building" ELSE "serving"
    /\ UNCHANGED <<SERVICE_ACCOUNT_JSON, exit_status, _bid_manager_service,
                   clients_built, entity_globals, frame, calls, fn_vars>>

\* Lines 1544-1550 up to the credential check of get_service().
StartupCheck ==
    /\ server = "init"
    /\ server' = IF _bid_manager_service # 0 THEN "serving"
                 ELSE IF CredentialCheck.ok THEN "building" ELSE "exited"
    /\ exit_status' = IF server' = "exited" THEN <<1>> ELSE exit_status
    /\ UNCHANGED <<SERVICE_ACCOUNT_JSON, _bid_manager_service, clients_built,
                   entity_globals, frame, calls, fn_vars>>

\* Lines 84-95 inside initialize_server, then sys.exit(1) or mcp.run.
StartupBuild ==
    /\ server = "building"
    /\ \E out \in BuildOutcomes :
         IF out.ok
         THEN /\ clients_built' = clients_built + 1
              /\ _bid_manager_service' = clients_built + 1
              /\ server' = "serving"
              /\ UNCHANGED exit_status
         ELSE /\ server' = "exited"
              /\ exit_status' = <<1>>
              /\ UNCHANGED <<_bid_manager_service, clients_built>>
    /\ UNCHANGED <<SERVICE_ACCOUNT_JSON, entity_globals, frame, calls, fn_vars>>

-----------------------------------------------------------------------------
(* dv_run_report, step by step, in thread t *)

SetFrame(t, f) == frame' = [frame EXCEPT ![t] = f]

\* The tool is called with validated arguments, one of argset.
CallWith(t, argset) ==
    /\ server = "serving"
    /\ frame[t].pc \in {"idle", "returned", "raised"}
    /\ calls < MaxCalls
    /\ calls' = calls + 1
    /\ \E a \in argset :
         SetFrame(t, [IdleFrame EXCEPT !.tool = "dv_run_report",
                                       !.pc = "get_service", !.args = a])
    /\ UNCHANGED <<globals, fn_vars>>

Call(t) == CallWith(t, CallArgs)

\* As GetService, without the test for a stored client.
GetServiceUnmemoized(t) ==
    /\ frame[t].pc = "get_service"
    /\ SetFrame(t, IF CredentialCheck.ok
                   THEN [frame[t] EXCEPT !.pc = "build_service"]
                   ELSE Except(frame[t], CredentialCheck))
    /\ UNCHANGED <<globals, calls, fn_vars>>

\* As GetService, for a tool that treats a configuration error as
\* initialize_server does.
GetServiceExitsOnError(t) ==
    /\ frame[t].pc = "get_service"
    /\ SetFrame(t, IF _bid_manager_service # 0
                   THEN [frame[t] EXCEPT !.pc = "prepare",
                                         !.service = _bid_manager_service]
                   ELSE IF CredentialCheck.ok
                   THEN [frame[t] EXCEPT !.pc = "build_service"]
                   ELSE Except(frame[t], CredentialCheck))
    /\ server' = IF _bid_manager_service = 0 /\ ~CredentialCheck.ok
                 THEN "exited" ELSE server
    /\ exit_status' = IF server' = "exited" THEN <<1>> ELSE exit_status
    /\ UNCHANGED <<SERVICE_ACCOUNT_JSON, _bid_manager_service, clients_built,
                   entity_globals, calls, fn_vars>>

\* Lines 68-80 and 97: the client is there, or the credentials are examined.
GetService(t) ==
    /\ frame[t].pc = "get_service"
    /\ SetFrame(t, IF _bid_manager_service # 0
                   THEN [frame[t] EXCEPT !.pc = "prepare",
                                         !.service = _bid_manager_service]
                   ELSE IF CredentialCheck.ok
                   THEN [frame[t] EXCEPT !.pc = "build_service"]
                   ELSE Except(frame[t], CredentialCheck))
    /\ UNCHANGED <<globals, calls, fn_vars>>

\* As BuildService, for a getter that stores a marker in the handle when the
\* construction fails.
BuildServiceStoresFailure(t) ==
    /\ frame[t].pc = "build_service"
    /\ \E out \in BuildOutcomes :
         IF out.ok
         THEN /\ clients_built' = clients_built + 1
              /\ _bid_manager_service' = clients_built + 1
              /\ SetFrame(t, [frame[t] EXCEPT !.pc = "prepare",
                                              !.service = clients_built + 1,
                                              !.built = TRUE])
         ELSE /\ SetFrame(t, Except(frame[t], out))
              /\ _bid_manager_service' = -1
              /\ UNCHANGED clients_built
    /\ UNCHANGED <<SERVICE_ACCOUNT_JSON, server, exit_status, entity_globals,
                   calls, fn_vars>>

\* As BuildService, for a getter that tests the handle again under a lock
\* before it constructs.
BuildServiceGuarded(t) ==
    /\ frame[t].pc = "build_service"
    /\ \E out \in BuildOutcomes :
         IF _bid_manager_service # 0
         THEN /\ SetFrame(t, [frame[t] EXCEPT !.pc = "prepare",
                                              !.service = _bid_manager_service])
              /\ UNCHANGED <<_bid_manager_service, clients_built>>
         ELSE IF out.ok
         THEN /\ clients_built' = clients_built + 1
              /\ _bid_manager_service' = clients_built + 1
              /\ SetFrame(t, [frame[t] EXCEPT !.pc = "prepare",
                                              !.service = clients_built + 1,
                                              !.built = TRUE])
         ELSE /\ SetFrame(t, Except(frame[t], out))
              /\ UNCHANGED <<_bid_manager_service, clients_built>>
    /\ UNCHANGED <<SERVICE_ACCOUNT_JSON, server, exit_status, entity_globals,
                   calls, fn_vars>>

\* Lines 84-97: credentials and client are built and the client is stored.
BuildService(t) ==
    /\ frame[t].pc = "build_service"
    /\ \E out \in BuildOutcomes :
         IF out.ok
         THEN /\ clients_built' = clients_built + 1
              /\ _bid_manager_service' = clients_built + 1
              /\ SetFrame(t, [frame[t] EXCEPT !.pc = "prepare",
                                              !.service = clients_built + 1,
                                              !.built = TRUE])
         ELSE /\ SetFrame(t, Except(frame[t], out))
              /\ UNCHANGED <<_bid_manager_service, clients_built>>
    /\ UNCHANGED <<SERVICE_ACCOUNT_JSON, server, exit_status, entity_globals,
                   calls, fn_vars>>

Preparation(t) ==
    /\ frame[t].pc = "prepare"
    /\ SetFrame(t, Prepare(frame[t]))
    /\ UNCHANGED <<globals, calls, fn_vars>>

\* As CreateRequest, but nothing is submitted and a known query id is run.
CreateSkipped(t) ==
    /\ frame[t].pc = "create"
    /\ SetFrame(t, [frame[t] EXCEPT !.pc = "run", !.query_id = "q1"])
    /\ UNCHANGED <<globals, calls, fn_vars>>

\* Line 1294: queries().create(body=query_obj).execute() is issued and blocks.
CreateRequest(t) ==
    /\ frame[t].pc = "create"
    /\ SetFrame(t, [Log(frame[t], [op |-> "create", ev |-> "request",
                                   service |-> frame[t].service,
                                   body |-> query_obj(frame[t])])
                       EXCEPT !.pc = "create_wait"])
    /\ UNCHANGED <<globals, calls, fn_vars>>

CreateReturn(t) ==
    /\ frame[t].pc = "create_wait"
    /\ \E out \in CreateOutcomes :
         SetFrame(t, Created(Log(frame[t], [op |-> "create", ev |-> "end",
                                            out |-> out]), out))
    /\ UNCHANGED <<globals, calls, fn_vars>>

\* Lines 1300-1303: queries().run(...).execute() is issued and blocks.
\* As RunRequest, with the query id kept in one place for all calls: the id
\* another call in progress has stored is the one sent.
RunRequestSharedQueryId(t) ==
    LET others == {u \in Threads \ {t} : frame[u].query_id # ""}
        latest == IF others = {} THEN frame[t]
                  ELSE frame[CHOOSE u \in others : TRUE]
    IN /\ frame[t].pc = "run"
       /\ SetFrame(t, [Log(frame[t], [op |-> "run", ev |-> "request",
                                      service |-> frame[t].service,
                                      body |-> run_request(latest)])
                          EXCEPT !.pc = "run_wait"])
       /\ UNCHANGED <<globals, calls, fn_vars>>

RunRequest(t) ==
    /\ frame[t].pc = "run"
    /\ SetFrame(t, [Log(frame[t], [op |-> "run", ev |-> "request",
                                   service |-> frame[t].service,
                                   body |-> run_request(frame[t])])
                       EXCEPT !.pc = "run_wait"])
    /\ UNCHANGED <<globals, calls, fn_vars>>

RunReturn(t) ==
    /\ frame[t].pc = "run_wait"
    /\ \E out \in RunOutcomes :
         SetFrame(t, Ran(Log(frame[t], [op |-> "run", ev |-> "end",
                                        out |-> out]), out))
    /\ UNCHANGED <<globals, calls, fn_vars>>

\* Line 161: urlopen(gcs_path) is issued and blocks.
DownloadRequest(t) ==
    /\ frame[t].pc = "download"
    /\ SetFrame(t, [Log(frame[t], [op |-> "download", ev |-> "request",
                                   body |-> frame[t].gcs_path])
                       EXCEPT !.pc = "download_wait"])
    /\ UNCHANGED <<globals, calls, fn_vars>>

DownloadReturn(t) ==
    /\ frame[t].pc = "download_wait"
    /\ \E out \in DownloadOutcomes :
         SetFrame(t, Downloaded(Log(frame[t], [op |-> "download", ev |-> "end",
                                               out |-> out]), out))
    /\ UNCHANGED <<globals, calls, fn_vars>>

\* The steps of a call that has been made.
ReportStep(t) ==
    \/ GetService(t)
    \/ BuildService(t)
    \/ Preparation(t)
    \/ CreateRequest(t)
    \/ CreateReturn(t)
    \/ RunRequest(t)
    \/ RunReturn(t)
    \/ DownloadRequest(t)
    \/ DownloadReturn(t)

Step(t) == Call(t) \/ ReportStep(t)

PageSizes == {-5, 0, 1, 50, 100, 101, 250}
PartnerArgs == {PyNone, PyStr(""), PyStr("123456")}
FilterArgs == {PyNone, PyStr(""), PyStr("entityStatus=\"ENTITY_STATUS_ACTIVE\"")}
OrderByArgs == {PyNone, PyStr("displayName")}

\* The tool called and its arguments: every page size without filter and
\* order, and every filter and order with the default page size.
ListOptions ==
    {[page_size |-> n, filter |-> PyNone, order_by |-> PyNone] : n \in PageSizes}
    \cup {[page_size |-> 100, filter |-> fl, order_by |-> o] :
            fl \in FilterArgs, o \in OrderByArgs}
EntityCallArgs ==
    {[tool |-> "dv_list_advertisers",
      args |-> [partner_id |-> p, page_size |-> o.page_size,
                order_by |-> o.order_by]] :
        p \in PartnerArgs, o \in ListOptions}
    \cup {[tool |-> tool,
           args |-> [advertiser_id |-> "77", page_size |-> o.page_size,
                     filter |-> o.filter, order_by |-> o.order_by]] :
            tool \in ListTools \ {"dv_list_advertisers"}, o \in ListOptions}
    \cup {[tool |-> tool, args |-> [advertiser_id |-> "77", entity_id |-> id]] :
            tool \in GetTools, id \in {"5", "6"}}

\* The report calls made beside the entity tools: one name, one spelling of
\* dimensions and metrics.
ServerCallArgs ==
    {a \in CallArgs :
        /\ a.report_name = "Weekly"
        /\ a.dimensions.t = "str" /\ a.metrics.t = "list"
        /\ a.campaign_ids = PyNone}

\* An entity tool is called with validated arguments.
EntityCall(t) ==
    /\ server = "serving"
    /\ frame[t].pc \in {"idle", "returned", "raised"}
    /\ calls < MaxCalls
    /\ calls' = calls + 1
    /\ \E c \in EntityCallArgs :
         SetFrame(t, [IdleFrame EXCEPT !.tool = c.tool, !.pc = "entity_start",
                                       !.args = c.args])
    /\ UNCHANGED <<globals, fn_vars>>

\* As EntityGetService, for "partner_id = partner_id or DEFAULT_PARTNER_ID".
EntityGetServiceFalsyDefault(t) ==
    LET f == frame[t]
        partner_id == IF f.tool = "dv_list_advertisers" /\ ~Truthy(f.args.partner_id)
                      THEN DEFAULT_PARTNER_ID
                      ELSE IF f.tool = "dv_list_advertisers" THEN f.args.partner_id
                      ELSE f.partner_id
        g == [f EXCEPT !.partner_id = partner_id]
    IN /\ f.pc = "entity_start"
       /\ SetFrame(t,
            IF f.tool = "dv_list_advertisers" /\ partner_id = PyNone
            THEN Return(g, [success |-> FALSE,
                   error |-> "No partner_id provided and DV360_PARTNER_ID not set in .env file",
                   message |-> "Either provide partner_id parameter or set "
                                 \o "DV360_PARTNER_ID in your .env file"])
            ELSE IF _dv360_service # 0
            THEN [g EXCEPT !.pc = "entity_request", !.service = _dv360_service]
            ELSE IF CredentialCheck.ok
            THEN [g EXCEPT !.pc = "entity_build"]
            ELSE EntityExcept(g, CredentialCheck))
       /\ UNCHANGED <<globals, calls, fn_vars>>

\* Lines 328-337 of dv_list_advertisers (the partner id of the call or of the
\* environment), then lines 114-126 of get_dv360_service: the client is
\* there, or the credentials are examined.
EntityGetService(t) ==
    LET f == frame[t]
        partner_id == IF f.tool = "dv_list_advertisers" /\ f.args.partner_id = PyNone
                      THEN DEFAULT_PARTNER_ID
                      ELSE IF f.tool = "dv_list_advertisers" THEN f.args.partner_id
                      ELSE f.partner_id
        g == [f EXCEPT !.partner_id = partner_id]
    IN /\ f.pc = "entity_start"
       /\ SetFrame(t,
            IF f.tool = "dv_list_advertisers" /\ partner_id = PyNone
            THEN Return(g, [success |-> FALSE,
                   error |-> "No partner_id provided and DV360_PARTNER_ID not set in .env file",
                   message |-> "Either provide partner_id parameter or set "
                                 \o "DV360_PARTNER_ID in your .env file"])
            ELSE IF _dv360_service # 0
            THEN [g EXCEPT !.pc = "entity_request", !.service = _dv360_service]
            ELSE IF CredentialCheck.ok
            THEN [g EXCEPT !.pc = "entity_build"]
            ELSE EntityExcept(g, CredentialCheck))
       /\ UNCHANGED <<globals, calls, fn_vars>>

\* Lines 128-141: credentials and client are built and the client is stored.
EntityBuildService(t) ==
    /\ frame[t].pc = "entity_build"
    /\ \E out \in BuildOutcomes :
         IF out.ok
         THEN /\ dv360_clients_built' = dv360_clients_built + 1
              /\ _dv360_service' = dv360_clients_built + 1
              /\ SetFrame(t, [frame[t] EXCEPT !.pc = "entity_request",
                                              !.service = dv360_clients_built + 1,
                                              !.built = TRUE])
         ELSE /\ SetFrame(t, EntityExcept(frame[t], out))
              /\ UNCHANGED <<_dv360_service, dv360_clients_built>>
    /\ UNCHANGED <<SERVICE_ACCOUNT_JSON, server, exit_status,
                   _bid_manager_service, clients_built, DEFAULT_PARTNER_ID,
                   calls, fn_vars>>

\* The request of the tool is sent.
EntityRequest(t) ==
    /\ frame[t].pc = "entity_request"
    /\ SetFrame(t, [Log(frame[t], [op |-> ApiMethod(frame[t].tool),
                                   ev |-> "request",
                                   service |-> frame[t].service,
                                   body |-> EntityParams(frame[t])])
                       EXCEPT !.pc = "entity_wait"])
    /\ UNCHANGED <<globals, calls, fn_vars>>

\* execute() ends: the response is formatted and returned, or the exception
\* is handled.
EntityReturn(t) ==
    /\ frame[t].pc = "entity_wait"
    /\ \E out \in EntityOutcomes(frame[t].tool) :
         LET f == Log(frame[t], [op |-> ApiMethod(frame[t].tool), ev |-> "end",
                                 out |-> out])
         IN SetFrame(t, IF out.ok THEN EntitySucceeded(f, out.value)
                        ELSE EntityExcept(f, out))
    /\ UNCHANGED <<globals, calls, fn_vars>>

EntityStep(t) ==
    \/ EntityCall(t)
    \/ EntityGetService(t)
    \/ EntityBuildService(t)
    \/ EntityRequest(t)
    \/ EntityReturn(t)

\* DV360_PARTNER_ID unset, set to nothing, or set to a partner id.
PartnerEnv == {PyNone, PyStr(""), PyStr("900")}

\* No helper function is under test.
FnIdle == fn_arg = <<>> /\ fn_ret = NotCalled /\ fn_again = NotCalled

\* The module has been imported: no client yet.  The process was started
\* through main(), or the tools are served by a host that imported the module.
SysInit ==
    /\ SERVICE_ACCOUNT_JSON \in {"unset", "invalid", "valid"}
    /\ server \in {"init", "serving"}
    /\ exit_status = <<>>
    /\ _bid_manager_service = 0
    /\ clients_built = 0
    /\ DEFAULT_PARTNER_ID \in PartnerEnv
    /\ _dv360_service = 0
    /\ dv360_clients_built = 0
    /\ frame = [t \in Threads |-> IdleFrame]
    /\ calls = 0

\* The reporting tool reads no partner id.
Init == SysInit /\ FnIdle /\ DEFAULT_PARTNER_ID = PyNone

\* One tool call at a time, in thread 1.
Next == StartupCheck \/ StartupBuild \/ Step(1)

Spec == Init /\ [][Next]_vars

\* The server with all its tools, one tool call at a time.
InitServer == SysInit /\ FnIdle

ServerCall(t) == CallWith(t, ServerCallArgs)

NextServer ==
    \/ StartupCheck \/ StartupBuild
    \/ ServerCall(1) \/ ReportStep(1) \/ EntityStep(1)

SpecServer == InitServer /\ [][NextServer]_vars

\* Two report calls in progress at once: thread 1 asks for a filtered report
\* by name "MCP Report", with either end date, thread 2 for an unfiltered one
\* by name "Weekly".
ConcurrentCallArgs(t) ==
    {a \in CallArgs :
        IF t = 1
        THEN /\ a.report_name = "MCP Report"
             /\ a.start_date = <<"2", "0", "2", "5", "-", "0", "1", "-", "0", "1">>
             /\ a.dimensions.t = "str" /\ a.metrics.t = "list"
             /\ a.advertiser_ids.t = "str" /\ Truthy(a.advertiser_ids)
             /\ a.campaign_ids = PyNone
        ELSE /\ a.report_name = "Weekly"
             /\ a.start_date = <<"2", "0", "2", "5", "-", "0", "2", "-", "0", "1">>
             /\ a.end_date = <<"2", "0", "2", "5", "-", "0", "1", "-", "3", "1">>
             /\ a.dimensions.t = "list" /\ a.metrics.t = "str"
             /\ a.advertiser_ids = PyNone /\ a.insertion_order_ids = PyNone}

ConcurrentCall(t) == CallWith(t, ConcurrentCallArgs(t))

InitConcurrent == SysInit /\ FnIdle /\ DEFAULT_PARTNER_ID = PyNone

\* The steps of the calls of the threads interleave.
NextConcurrent ==
    \/ StartupCheck \/ StartupBuild
    \/ \E t \in Threads : ConcurrentCall(t) \/ ReportStep(t)

SpecConcurrent == InitConcurrent /\ [][NextConcurrent]_vars

-----------------------------------------------------------------------------
(* Bounded inputs of the helper functions *)

\* Every string over alphabet of length at most n.
Strings(alphabet, n) == UNION {[1..k -> alphabet] : k \in 0..n}

\* Every list of at most n elements drawn from elems.
Lists(elems, n) == UNION {[1..k -> elems] : k \in 0..n}

MaxDateLen == 5
DateChars == {"1", "x", "-"}
DateInputs == Strings(DateChars, MaxDateLen)

MaxIdLen == 3
MaxListLen == 2
IdChars == {"1", ",", " "}
ListElems == {<<"1">>, <<" ", "2", " ">>, <<>>, <<"3", ",", "4">>}
IdInputs ==
    {PyNone} \cup {PyStr(s) : s \in Strings(IdChars, MaxIdLen)}
             \cup {PyList(l) : l \in Lists(ListElems, MaxListLen)}
\* The values the three parameters beside the varied one take.
OtherIdInputs == {PyNone, PyStr(<<"7">>), PyList(<<<<"8">>, <<" ", "9">>>>)}

FieldInputs ==
    {PyStr(s) : s \in Strings(IdChars, MaxIdLen)}
    \cup {PyList(l) : l \in Lists(ListElems, MaxListLen)}

-----------------------------------------------------------------------------
(* Specification of format_date_for_api applied to one input *)

InitDate ==
    /\ fn_arg \in {<<s>> : s \in DateInputs}
    /\ fn_ret = NotCalled
    /\ fn_again = NotCalled
    /\ SysInit /\ server = "init" /\ SERVICE_ACCOUNT_JSON = "valid"
    /\ DEFAULT_PARTNER_ID = PyNone

ApplyDate ==
    /\ fn_ret = NotCalled
    /\ fn_ret' = format_date_for_api(fn_arg[1])
    /\ UNCHANGED <<fn_arg, fn_again, sys_vars>>

NextDate == ApplyDate

SpecDate == InitDate /\ [][NextDate]_vars

Hyphens(s) == {i \in 1..Len(s) : s[i] = "-"}
MinOf(S) == CHOOSE i \in S : \A j \in S : i <= j
MaxOf(S) == CHOOSE i \in S : \A j \in S : i >= j

\* C7: format_date_for_api returns, for a string with exactly two hyphens, the
\* record of the three substrings around them, verbatim; for every other string
\* it raises (the ValueError of the failed unpacking).
DateSplitsVerbatim ==
    fn_ret # NotCalled =>
        LET s == fn_arg[1]
            H == Hyphens(s)
        IN IF Cardinality(H) = 2
           THEN fn_ret = Returned([year |-> SubSeq(s, 1, MinOf(H) - 1),
                                   month |-> SubSeq(s, MinOf(H) + 1, MaxOf(H) - 1),
                                   day |-> SubSeq(s, MaxOf(H) + 1, Len(s))])
           ELSE ~fn_ret.ok /\ fn_ret.cls = "ValueError"

\* C7 witness: "1-x-" was formatted: a non-numeric month and an empty day.
DateFormattedWitness ==
    /\ fn_ret.ok
    /\ fn_arg[1] = <<"1", "-", "x", "-">>
    /\ fn_ret.value.month = <<"x">>
    /\ fn_ret.value.day = <<>>

-----------------------------------------------------------------------------
(* Specification of prepare_filters: one call, then a call in which one    *)
(* str argument is replaced by the list of its trimmed segments            *)

\* The n-th comma of s, and the text between commas n-1 and n, read off the
\* positions of the commas.
Commas(s) == {i \in 1..Len(s) : s[i] = ","}
NthComma(s, n) ==
    CHOOSE i \in Commas(s) : Cardinality({j \in Commas(s) : j < i}) = n - 1
Segment(s, n) ==
    LET first == IF n = 1 THEN 1 ELSE NthComma(s, n - 1) + 1
        last == IF n = Cardinality(Commas(s)) + 1
                THEN Len(s) ELSE NthComma(s, n) - 1
    IN SubSeq(s, first, last)
\* t without its leading and trailing whitespace.
Trimmed(t) ==
    LET solid == {i \in 1..Len(t) : t[i] \notin Whitespace} IN
    IF solid = {} THEN <<>>
    ELSE SubSeq(t, CHOOSE i \in solid : \A j \in solid : i <= j,
                   CHOOSE i \in solid : \A j \in solid : i >= j)
TrimmedSegments(s) ==
    [n \in 1..(Cardinality(Commas(s)) + 1) |-> Trimmed(Segment(s, n))]

InitFilters ==
    /\ \E k \in 1..4 :
         fn_arg \in {[j \in 1..4 |-> IF j = k THEN x ELSE o[j]] :
                        x \in IdInputs, o \in [1..4 -> OtherIdInputs]}
    /\ fn_ret = NotCalled
    /\ fn_again = NotCalled
    /\ SysInit /\ server = "init" /\ SERVICE_ACCOUNT_JSON = "valid"
    /\ DEFAULT_PARTNER_ID = PyNone

ApplyFilters ==
    /\ fn_ret = NotCalled
    /\ fn_ret' = Returned(prepare_filters(fn_arg[1], fn_arg[2], fn_arg[3], fn_arg[4]))
    /\ UNCHANGED <<fn_arg, fn_again, sys_vars>>

\* The same call with the str at position k given as a list instead.
ApplyFiltersWithList(k) ==
    /\ fn_ret # NotCalled
    /\ fn_again = NotCalled
    /\ fn_arg[k].t = "str"
    /\ LET a == [fn_arg EXCEPT ![k] = PyList(TrimmedSegments(fn_arg[k].v))]
       IN fn_again' = [ok |-> TRUE, pos |-> k,
                       value |-> prepare_filters(a[1], a[2], a[3], a[4])]
    /\ UNCHANGED <<fn_arg, fn_ret, sys_vars>>

NextFilters == ApplyFilters \/ \E k \in 1..4 : ApplyFiltersWithList(k)

SpecFilters == InitFilters /\ [][NextFilters]_vars

FilterType == <<"FILTER_ADVERTISER", "FILTER_MEDIA_PLAN",
                "FILTER_INSERTION_ORDER", "FILTER_LINE_ITEM">>
FilterRank(type) == CHOOSE k \in 1..4 : FilterType[k] = type
\* The values of the clauses of one type, in the order they appear in r.
ValuesOfType(r, type) ==
    LET IsMine(cl) == cl.type = type
        mine == SelectSeq(r, IsMine)
    IN [n \in 1..Len(mine) |-> mine[n].value]

\* C8 as stated: whatever str is given for an identifier input, the call with
\* the list of its trimmed segments in its place returns the same clauses.
FiltersStrSameAsList ==
    fn_again # NotCalled => fn_again.value = fn_ret.value

\* C8 amended: a non-empty str and the list of its trimmed segments give the
\* same clauses; the elements of a list are emitted as given, untrimmed.
FiltersNonEmptyStrSameAsList ==
    /\ (fn_again # NotCalled /\ fn_arg[fn_again.pos].v # <<>>)
           => fn_again.value = fn_ret.value
    /\ fn_ret # NotCalled =>
           \A k \in 1..4 :
               fn_arg[k].t = "list" =>
                   ValuesOfType(fn_ret.value, FilterType[k]) = fn_arg[k].v

\* C8 witness: " 1," was given as a str and then as the list ["1", ""].
FiltersStrAndListWitness ==
    /\ fn_again.ok
    /\ fn_arg[fn_again.pos].v = <<" ", "1", ",">>
    /\ ValuesOfType(fn_again.value, FilterType[fn_again.pos]) = <<<<"1">>, <<>>>>

\* C9: one clause per identifier of each present input, of the type of the
\* input, the four groups in the order advertiser, campaign, insertion order,
\* line item and each group in input order; nothing for absent inputs; the
\* call always returns.
FiltersOnePerIdInOrder ==
    fn_ret # NotCalled =>
        /\ fn_ret.ok
        /\ LET r == fn_ret.value IN
           /\ \A k \in 1..4 :
                 LET x == fn_arg[k]
                     mine == ValuesOfType(r, FilterType[k])
                 IN CASE x.t = "None" -> mine = <<>>
                      [] x.t = "list" -> mine = x.v
                      [] x.t = "str" /\ x.v # <<>> ->
                           /\ Len(mine) = Cardinality(Commas(x.v)) + 1
                           /\ \A n \in 1..Len(mine) :
                                  mine[n] = Trimmed(Segment(x.v, n))
                      [] OTHER -> TRUE
           /\ \A i \in 1..Len(r) : \E k \in 1..4 : r[i].type = FilterType[k]
           /\ \A i, j \in 1..Len(r) :
                 i < j => FilterRank(r[i].type) <= FilterRank(r[j].type)
           /\ (\A k \in 1..4 : fn_arg[k] = PyNone) => r = <<>>

\* C9 witness: advertiser "1, " with a campaign list and an insertion-order
\* str gave five clauses.
FiltersMixedWitness ==
    /\ fn_ret.ok
    /\ fn_arg[1] = PyStr(<<"1", ",", " ">>)
    /\ fn_arg[2].t = "list"
    /\ fn_arg[3].t = "str"
    /\ fn_arg[4] = PyNone
    /\ Len(fn_ret.value) = 5

-----------------------------------------------------------------------------
(* Specification of prepare_dimensions_and_metrics: one call, then a call  *)
(* on the pair it returned                                                 *)

InitFields ==
    /\ fn_arg \in FieldInputs \X FieldInputs
    /\ fn_ret = NotCalled
    /\ fn_again = NotCalled
    /\ SysInit /\ server = "init" /\ SERVICE_ACCOUNT_JSON = "valid"
    /\ DEFAULT_PARTNER_ID = PyNone

ApplyFields ==
    /\ fn_ret = NotCalled
    /\ fn_ret' = Returned(prepare_dimensions_and_metrics(fn_arg[1], fn_arg[2]))
    /\ UNCHANGED <<fn_arg, fn_again, sys_vars>>

ApplyFieldsAgain ==
    /\ fn_ret # NotCalled
    /\ fn_again = NotCalled
    /\ fn_again' = Returned(prepare_dimensions_and_metrics(
                                PyList(fn_ret.value[1]), PyList(fn_ret.value[2])))
    /\ UNCHANGED <<fn_arg, fn_ret, sys_vars>>

NextFields == ApplyFields \/ ApplyFieldsAgain

SpecFields == InitFields /\ [][NextFields]_vars

\* C10: each of dimensions and metrics is normalized on its own: a str becomes
\* the list of its trimmed comma-separated segments, a list is returned as it
\* is; normalizing the returned pair again returns the same pair.
FieldsNormalizedIdempotent ==
    /\ fn_ret # NotCalled =>
           \A k \in 1..2 :
               fn_ret.value[k] = IF fn_arg[k].t = "str"
                                 THEN TrimmedSegments(fn_arg[k].v)
                                 ELSE fn_arg[k].v
    /\ fn_again # NotCalled => fn_again.value = fn_ret.value

\* C10 witness: dimensions "1, " and the metrics list [" 2 "] were normalized
\* twice.
FieldsTwiceWitness ==
    /\ fn_again.ok
    /\ fn_arg[1] = PyStr(<<"1", ",", " ">>)
    /\ fn_arg[2] = PyList(<<<<" ", "2", " ">>>>)
    /\ fn_again.value = <<<<<<"1">>, <<>>>>, <<<<" ", "2", " ">>>>>>

-----------------------------------------------------------------------------
(* Specification of parse_csv_to_json applied to one CSV text *)

\* ", ".join / "\n".join of a list of strings.
RECURSIVE Join(_, _)
Join(parts, sep) ==
    IF parts = <<>> THEN <<>>
    ELSE IF Len(parts) = 1 THEN parts[1]
    ELSE parts[1] \o sep \o Join(Tail(parts), sep)

MaxCellLen == 3
CellChars == {"1", "-", ".", "x"}
CellTexts == Strings(CellChars, MaxCellLen)
\* The cells beside the varied one.
OtherCells == {<<>>, <<"x">>, <<"0", "7">>}
\* Header lines: one, two (also twice the same) and three column names.
CsvHeaders == {<<"a">>, <<"a", ",", "b">>, <<"a", ",", "a">>,
               <<"b", ",", "a", ",", "c">>}
\* The rows holding the varied cell alone, in front, or behind another cell.
VariedRows(cells) ==
    {<<c>> : c \in cells}
    \cup {<<c, o>> : c \in cells, o \in OtherCells}
    \cup {<<o, c>> : c \in cells, o \in OtherCells}
\* The varied rows that stand beside other rows.
NarrowRows(cells) == {<<c>> : c \in cells} \cup {<<<<"x">>, c>> : c \in cells}
\* The rows beside the varied one: a blank line, short, full and long rows.
OtherRows == {<<>>, <<"x">>, <<"2", ".", "5">>,
              <<"x", ",">>, <<"x", ",", "-", "4">>, <<"1", ",", "x", ",", "3">>}
\* The CSV texts whose varied cell is one of cells.
CsvTexts(cells) ==
    LET Line(r) == Join(r, <<",">>)
        Body(h, rs) == Join(<<h>> \o rs, <<"\n">>)
    IN {<<>>}
       \cup {Body(h, <<>>) \o nl : h \in CsvHeaders, nl \in {<<>>, <<"\n">>}}
       \cup {Body(h, <<Line(v)>>) \o nl :
                h \in CsvHeaders, v \in VariedRows(cells), nl \in {<<>>, <<"\n">>}}
       \cup {Body(h, <<Line(v), o>>) \o <<"\n">> :
                h \in CsvHeaders, v \in NarrowRows(cells), o \in OtherRows}
       \cup {Body(h, <<o, Line(v)>>) \o <<"\n">> :
                h \in CsvHeaders, v \in NarrowRows(cells), o \in OtherRows}
       \cup {Body(h, <<o, Line(<<c>>), p>>) \o <<"\n">> :
                h \in CsvHeaders, c \in cells,
                o \in {<<>>, <<"x">>}, p \in {<<>>, <<"x">>}}

InitCsv ==
    /\ fn_arg \in {<<s>> : s \in CsvTexts(CellTexts)}
    /\ fn_ret = NotCalled
    /\ fn_again = NotCalled
    /\ SysInit /\ server = "init" /\ SERVICE_ACCOUNT_JSON = "valid"
    /\ DEFAULT_PARTNER_ID = PyNone

ApplyCsv ==
    /\ fn_ret = NotCalled
    /\ fn_ret' = parse_csv_to_json(fn_arg[1])
    /\ UNCHANGED <<fn_arg, fn_again, sys_vars>>

NextCsv == ApplyCsv

SpecCsv == InitCsv /\ [][NextCsv]_vars

\* The text read declaratively: lines between newlines, cells between commas.
Newlines(s) == {i \in 1..Len(s) : s[i] = "\n"}
NthOf(S, n) == CHOOSE i \in S : Cardinality({j \in S : j < i}) = n - 1
\* The number of lines: a final newline opens no further line.
LineCount(s) ==
    IF s = <<>> THEN 0
    ELSE IF s[Len(s)] = "\n" THEN Cardinality(Newlines(s))
    ELSE Cardinality(Newlines(s)) + 1
TextLine(s, n) ==
    LET first == IF n = 1 THEN 1 ELSE NthOf(Newlines(s), n - 1) + 1
        last == IF n = Cardinality(Newlines(s)) + 1
                THEN Len(s) ELSE NthOf(Newlines(s), n) - 1
    IN SubSeq(s, first, last)
CellCount(line) == IF line = <<>> THEN 0 ELSE Cardinality(Commas(line)) + 1
\* The column names of the header line.
HeaderNames(s) ==
    {Segment(TextLine(s, 1), n) : n \in 1..CellCount(TextLine(s, 1))}
\* The last column of the header that carries the name.
ColumnOf(s, name) ==
    MaxOf({n \in 1..CellCount(TextLine(s, 1)) :
              Segment(TextLine(s, 1), n) = name})
\* The data lines (after the header) that are not blank.
DataLines(s) == {n \in 2..LineCount(s) : TextLine(s, n) # <<>>}

RECURSIVE Pow10(_)
Pow10(n) == IF n = 0 THEN 1 ELSE 10 * Pow10(n - 1)
\* The number written by digits ds, by the place value of each digit.
RECURSIVE PlaceSum(_, _)
PlaceSum(ds, i) ==
    IF i > Len(ds) THEN 0
    ELSE DigitValue(ds[i]) * Pow10(Len(ds) - i) + PlaceSum(ds, i + 1)

\* The classes of cell texts: an optional leading minus, then digits only, or
\* digits around exactly one dot.
Unsigned(v) == IF v # <<>> /\ v[1] = "-" THEN Tail(v) ELSE v
SignOf(v) == IF v # <<>> /\ v[1] = "-" THEN -1 ELSE 1
Dots(b) == {i \in 1..Len(b) : b[i] = "."}
IsIntegerText(v) ==
    /\ Unsigned(v) # <<>>
    /\ \A i \in 1..Len(Unsigned(v)) : Unsigned(v)[i] \in Digits
IsDecimalText(v) ==
    /\ Cardinality(Dots(Unsigned(v))) = 1
    /\ Len(Unsigned(v)) >= 2
    /\ \A i \in 1..Len(Unsigned(v)) : Unsigned(v)[i] \in Digits \cup {"."}
ExpectedCell(v) ==
    LET b == Unsigned(v)
        d == CHOOSE i \in Dots(b) : TRUE
    IN IF v = <<>> THEN PyNone
       ELSE IF IsIntegerText(v) THEN PyInt(SignOf(v) * PlaceSum(b, 1))
       ELSE IF IsDecimalText(v)
       THEN PyFloat(SignOf(v) * PlaceSum(SubSeq(b, 1, d - 1)
                                         \o SubSeq(b, d + 1, Len(b)), 1),
                    Len(b) - d)
       ELSE PyStr(v)
\* The record a data line writes under the header of s.
ExpectedRecord(s, line) ==
    [name \in HeaderNames(s) |->
        IF ColumnOf(s, name) <= CellCount(line)
        THEN ExpectedCell(Segment(line, ColumnOf(s, name)))
        ELSE PyNone]

\* C11: in every returned row sequence each value is determined by the text of
\* its own cell alone: an empty (or absent) cell is None, an optional leading
\* minus followed by digits is that integer, an optional leading minus with
\* digits around one dot is that float, and every other text, among them the
\* texts whose conversion fails ("1-1", "1.-"), is the original string.
CellsClassifiedAlone ==
    (fn_ret # NotCalled /\ fn_ret.ok) =>
        \A i \in 1..Len(fn_ret.value) : \A name \in DOMAIN fn_ret.value[i] :
            LET line == TextLine(fn_arg[1], NthOf(DataLines(fn_arg[1]), i))
                col == ColumnOf(fn_arg[1], name)
            IN fn_ret.value[i][name] =
                  IF col <= CellCount(line)
                  THEN ExpectedCell(Segment(line, col)) ELSE PyNone

\* A negative float behind a string cell, and a text that passes the digit
\* test but fails the conversion.
CellsClassifiedWitness ==
    /\ fn_ret # NotCalled /\ fn_ret.ok
    /\ \/ /\ fn_arg[1] = <<"a", ",", "b", "\n", "x", ",", "-", ".", "1", "\n">>
          /\ fn_ret.value = <<[a |-> PyStr(<<"x">>), b |-> PyFloat(-1, 1)]>>
       \/ /\ fn_arg[1] = <<"a", "\n", "1", "-", "1", "\n">>
          /\ fn_ret.value = <<[a |-> PyStr(<<"1", "-", "1">>)]>>

\* C12: parse_csv_to_json on a header line followed by N data rows returns a
\* sequence of exactly N records, the i-th record built from the i-th data row.
RowsOneRecordEach ==
    (fn_ret # NotCalled /\ LineCount(fn_arg[1]) >= 1) =>
        /\ fn_ret.ok
        /\ Len(fn_ret.value) = LineCount(fn_arg[1]) - 1
        /\ \A i \in 1..Len(fn_ret.value) :
              fn_ret.value[i] =
                  ExpectedRecord(fn_arg[1], TextLine(fn_arg[1], i + 1))

\* C13: in every returned row sequence each record has exactly the column
\* names of the header line as its keys.
RecordsKeyedByHeader ==
    (fn_ret # NotCalled /\ fn_ret.ok) =>
        \A i \in 1..Len(fn_ret.value) :
            DOMAIN fn_ret.value[i] = HeaderNames(fn_arg[1])

\* Three column names, a full row and a row of one cell: both records carry
\* the three keys.
ShortRowKeyedWitness ==
    /\ fn_ret # NotCalled /\ fn_ret.ok
    /\ fn_arg[1] = <<"b", ",", "a", ",", "c", "\n",
                     "1", ",", "x", ",", "3", "\n", "-", "1", "\n">>
    /\ Len(fn_ret.value) = 2
    /\ fn_ret.value[2] = [b |-> PyInt(-1), a |-> PyNone, c |-> PyNone]

-----------------------------------------------------------------------------
(* Properties of dv_run_report *)

\* The positions in the log of a call of the requests of one remote operation.
Requests(t, op) ==
    {i \in 1..Len(frame[t].events) :
        frame[t].events[i].ev = "request" /\ frame[t].events[i].op = op}
WellFormedDate(d) == Cardinality(Hyphens(d)) = 2
\* str() of the ValueError of unpacking the split of a malformed date.
UnpackErrorOf(d) == UnpackError(Cardinality(Hyphens(d)) + 1)

\* C1: no exception leaves dv_run_report; what a call returns is a success
\* record with data and metadata or a failure record with an error text.
NoExceptionEscapes ==
    \A t \in Threads :
        /\ frame[t].pc # "raised"
        /\ ~frame[t].escaped
        /\ frame[t].pc = "returned" =>
              LET r == frame[t].result IN
              \/ r.success /\ DOMAIN r = {"success", "data", "metadata"}
              \/ ~r.success /\ r.error # ""
                 /\ DOMAIN r \in {{"success", "error"}, {"success", "error", "query_id"}}

\* C1 witness: a call returned the failure of decoding a downloaded file.
DecodeFailureReturnedWitness ==
    /\ frame[1].pc = "returned"
    /\ Len(frame[1].events) = 6
    /\ frame[1].result = [success |-> FALSE,
                          error |-> "'list' object has no attribute 'replace'"]

\* C2: the remote steps of a call are create, run, download in that order, one
\* at a time: a request is issued only when the one before has ended, create
\* carries the prepared query, run follows a create that returned the query id
\* it names, download follows a run that returned.
StepsInOrder ==
    \A t \in Threads :
        LET ev == frame[t].events IN
        \A i \in 1..Len(ev) :
            IF ev[i].ev = "end"
            THEN i > 1 /\ ev[i - 1].ev = "request" /\ ev[i - 1].op = ev[i].op
            ELSE /\ i > 1 => ev[i - 1].ev = "end" /\ ev[i - 1].out.ok
                 /\ ev[i].op = "create" =>
                       /\ i = 1
                       /\ format_date_for_api(frame[t].args.start_date)
                            = Returned(ev[i].body.metadata.dataRange.customStartDate)
                       /\ format_date_for_api(frame[t].args.end_date)
                            = Returned(ev[i].body.metadata.dataRange.customEndDate)
                 /\ ev[i].op = "run" =>
                       /\ i = 3
                       /\ ev[i - 1].op = "create"
                       /\ ev[i].body.queryId = ev[i - 1].out.value.queryId
                 /\ ev[i].op = "download" =>
                       /\ i = 5
                       /\ ev[i - 1].op = "run"

\* C2 witness: a call went through create, run and download and returned rows.
AllStepsDoneWitness ==
    /\ frame[1].pc = "returned"
    /\ frame[1].result.success
    /\ Len(frame[1].events) = 6
    /\ frame[1].events[5].op = "download"

\* C3 as stated: a call that has returned has issued exactly one create.
ExactlyOneCreatePerCall ==
    \A t \in Threads :
        frame[t].pc = "returned" => Cardinality(Requests(t, "create")) = 1

AcquisitionErrors ==
    {"DV360_SERVICE_ACCOUNT environment variable not set. "
        \o "Please set it to your service account JSON credentials.",
     "Invalid JSON in DV360_SERVICE_ACCOUNT environment variable: "
        \o "Expecting value: line 1 column 1 (char 0)",
     "Service account info was not in the expected format"}

\* C3 amended: a call never issues more than one create, whatever the create
\* and the later steps do; a call that returned issued none exactly when it
\* failed acquiring the client or formatting a date, and one otherwise.
AtMostOneCreatePerCall ==
    \A t \in Threads :
        /\ Cardinality(Requests(t, "create")) <= 1
        /\ frame[t].pc = "returned" =>
              LET r == frame[t].result
                  early == /\ ~r.success
                           /\ \/ r.error \in AcquisitionErrors
                              \/ ~WellFormedDate(frame[t].args.start_date)
                              \/ ~WellFormedDate(frame[t].args.end_date)
              IN Cardinality(Requests(t, "create")) = IF early THEN 0 ELSE 1

\* C3 witness: the create request failed and the call returned after that one
\* request.
CreateFailedOnceWitness ==
    /\ frame[1].pc = "returned"
    /\ Len(frame[1].events) = 2
    /\ ~frame[1].events[2].out.ok
    /\ Requests(1, "create") = {1}

\* The run of the call of thread t ended reporting state FAILED.
RunFailed(t) ==
    /\ Len(frame[t].events) >= 4
    /\ frame[t].events[4].out.ok
    /\ GetPath(frame[t].events[4].out.value, <<"metadata", "status", "state">>)
         = Returned("FAILED")

\* C4: a run that ends in state FAILED makes the call return the failure
\* record with "Report generation failed: " and the remote message ("Unknown
\* error" when the response has none) and the query id create returned; the
\* file is never requested.
FailedRunReturnsFailure ==
    \A t \in Threads :
        RunFailed(t) =>
            LET status == frame[t].events[4].out.value.metadata.status IN
            /\ frame[t].pc = "returned"
            /\ Len(frame[t].events) = 4
            /\ Requests(t, "download") = {}
            /\ frame[t].result =
                 [success |-> FALSE,
                  error |-> IF "message" \in DOMAIN status
                            THEN "Report generation failed: " \o status.message
                            ELSE "Report generation failed: Unknown error",
                  query_id |-> frame[t].events[2].out.value.queryId]

\* C4 witness: the run of query q2 failed with "quota exceeded".
QuotaExceededWitness ==
    /\ RunFailed(1)
    /\ frame[1].result = [success |-> FALSE,
                          error |-> "Report generation failed: quota exceeded",
                          query_id |-> "q2"]

\* The call of thread t has returned after create, run, download and decode
\* all succeeded.
AllSucceeded(t) ==
    /\ frame[t].pc = "returned"
    /\ Len(frame[t].events) = 6
    /\ frame[t].events[6].out.ok
    /\ parse_csv_to_json(frame[t].events[6].out.value).ok

\* C5: when every step succeeds the call returns success with the decoded
\* rows of the downloaded file and metadata made of the query id of create,
\* the report id of run, the two date strings of the caller, the dimensions,
\* metrics and filters submitted in the query, and the number of rows.
SuccessCarriesRowsAndMetadata ==
    \A t \in Threads :
        AllSucceeded(t) =>
            LET ev == frame[t].events
                a == frame[t].args
                r == frame[t].result
            IN /\ DOMAIN r = {"success", "data", "metadata"}
               /\ r.success
               /\ r.data = parse_csv_to_json(ev[6].out.value).value
               /\ r.metadata =
                    [query_id |-> ev[2].out.value.queryId,
                     report_id |-> ev[4].out.value.key.reportId,
                     date_range |-> [start_date |-> a.start_date,
                                     end_date |-> a.end_date],
                     dimensions |-> ev[1].body.params.groupBys,
                     metrics |-> ev[1].body.params.metrics,
                     filters |-> ev[1].body.params.filters,
                     row_count |-> Len(r.data)]
               /\ r.metadata.dimensions
                    = IF a.dimensions.t = "str"
                      THEN TrimmedSegments(a.dimensions.v) ELSE a.dimensions.v
               /\ r.metadata.metrics
                    = IF a.metrics.t = "str"
                      THEN TrimmedSegments(a.metrics.v) ELSE a.metrics.v

\* C5 witness: the two-row report of 2025-01-01 to 2025-01-31 was returned.
TwoRowReportWitness ==
    /\ AllSucceeded(1)
    /\ frame[1].events[6].out.value = TwoRowCsv
    /\ frame[1].args.start_date = <<"2", "0", "2", "5", "-", "0", "1", "-", "0", "1">>
    /\ frame[1].result.metadata.row_count = 2
    /\ frame[1].result.data[2][<<"i", "m", "p", "r", "e", "s", "s", "i", "o", "n", "s">>] = PyInt(200)
    /\ frame[1].result.data[2][<<"d", "a", "t", "e">>] = PyStr(<<"2", "0", "2", "5", "-", "0", "1", "-", "0", "2">>)

\* C6: when the preparation step meets a date that does not split into three
\* parts, the call returns the failure record with the text of that exception
\* (of the start date first) and nothing is raised to the caller.
PreparationFailureReturned ==
    [][\A t \in Threads :
          LET a == frame[t].args IN
          (/\ frame[t].pc = "prepare"
           /\ frame'[t] # frame[t]
           /\ ~WellFormedDate(a.start_date) \/ ~WellFormedDate(a.end_date))
          => /\ frame'[t].pc = "returned"
             /\ ~frame'[t].escaped
             /\ frame'[t].result =
                  [success |-> FALSE,
                   error |-> IF ~WellFormedDate(a.start_date)
                             THEN UnpackErrorOf(a.start_date)
                             ELSE UnpackErrorOf(a.end_date)]]_vars

\* C6 witness: the end date "2025-01-31-" made a call with a client return
\* the unpacking error.
MalformedEndDateWitness ==
    /\ frame[1].pc = "returned"
    /\ _bid_manager_service # 0
    /\ WellFormedDate(frame[1].args.start_date)
    /\ frame[1].args.end_date = <<"2", "0", "2", "5", "-", "0", "1", "-", "3", "1", "-">>
    /\ frame[1].result = [success |-> FALSE,
                          error |-> "too many values to unpack (expected 3)"]
\* None of the four id arguments carries an id: each is None, "" or [].
NoIds(a) ==
    /\ ~Truthy(a.advertiser_ids) /\ ~Truthy(a.campaign_ids)
    /\ ~Truthy(a.insertion_order_ids) /\ ~Truthy(a.line_item_ids)

\* C14: a call without advertiser, campaign, insertion-order or line-item ids
\* (and with well-formed dates) is not stopped before the create request: it
\* logs one warning, submits the query with an empty filter list, fails only
\* by a failed client acquisition or after the submission, and succeeds when
\* every later step succeeds.
NoFiltersStillSubmitted ==
    \A t \in Threads :
        LET f == frame[t]
            submitted == Requests(t, "create") # {}
        IN (/\ f.pc # "idle"
            /\ NoIds(f.args)
            /\ WellFormedDate(f.args.start_date)
            /\ WellFormedDate(f.args.end_date)) =>
               /\ \/ f.pc \in {"get_service", "build_service", "prepare", "create"}
                  \/ /\ f.pc = "returned" /\ ~f.result.success
                     /\ f.result.error \in AcquisitionErrors
                  \/ submitted
               /\ (f.pc = "create" \/ submitted) => f.warnings = 1
               /\ \A i \in Requests(t, "create") :
                     f.events[i].body.params.filters = <<>>
               /\ AllSucceeded(t) =>
                     f.result.success /\ f.result.metadata.filters = <<>>

\* C14 witness: a call with the four id arguments None returned a report.
UnfilteredReportWitness ==
    /\ AllSucceeded(1)
    /\ frame[1].args.advertiser_ids = PyNone
    /\ frame[1].args.campaign_ids = PyNone
    /\ frame[1].args.insertion_order_ids = PyNone
    /\ frame[1].args.line_item_ids = PyNone
    /\ frame[1].warnings = 1
    /\ frame[1].events[1].body.params.filters = <<>>
    /\ frame[1].result.success

\* The day count order of two well-formed dates of digits, YYYY-MM-DD: the
\* digits read as one number.
IsDate(d) ==
    WellFormedDate(d) /\ \A i \in 1..Len(d) : d[i] \in Digits \cup {"-"}
DateNumber(d) == LET NotHyphen(c) == c # "-" IN PlaceSum(SelectSeq(d, NotHyphen), 1)
StartAfterEnd(a) ==
    /\ IsDate(a.start_date) /\ IsDate(a.end_date)
    /\ Len(a.start_date) = Len(a.end_date)
    /\ DateNumber(a.start_date) > DateNumber(a.end_date)
DateText(d) == Join(<<d.year, d.month, d.day>>, <<"-">>)

\* C15: a call whose start date lies after its end date is not stopped before
\* the create request; the query it submits carries both dates as given, and
\* when the create request is rejected the call returns the failure record
\* whose error is the text of that rejection.
ReversedDatesSubmitted ==
    \A t \in Threads :
        LET f == frame[t]
            ev == f.events
        IN (f.pc # "idle" /\ StartAfterEnd(f.args)) =>
               /\ \/ f.pc \in {"get_service", "build_service", "prepare", "create"}
                  \/ /\ f.pc = "returned" /\ ~f.result.success
                     /\ f.result.error \in AcquisitionErrors
                  \/ Requests(t, "create") # {}
               /\ \A i \in Requests(t, "create") :
                     LET range == ev[i].body.metadata.dataRange IN
                     /\ DateText(range.customStartDate) = f.args.start_date
                     /\ DateText(range.customEndDate) = f.args.end_date
               /\ (Len(ev) >= 2 /\ ~ev[2].out.ok) =>
                     /\ f.pc = "returned"
                     /\ f.result = [success |-> FALSE, error |-> ev[2].out.msg]

\* C15 witness: the range 2025-02-01 to 2025-01-31 was submitted and the
\* rejection of the service returned.
ReversedDatesRejectedWitness ==
    /\ frame[1].pc = "returned"
    /\ frame[1].args.start_date = <<"2", "0", "2", "5", "-", "0", "2", "-", "0", "1">>
    /\ frame[1].args.end_date = <<"2", "0", "2", "5", "-", "0", "1", "-", "3", "1">>
    /\ Requests(1, "create") = {1}
    /\ frame[1].events[1].body.metadata.dataRange.customStartDate
          = [year |-> <<"2", "0", "2", "5">>, month |-> <<"0", "2">>,
             day |-> <<"0", "1">>]
    /\ frame[1].result = [success |-> FALSE,
                          error |-> "<HttpError 400 \"Invalid date range\">"]

\* The call of thread t holds the client its getter returned.
HoldsReportClient(t) ==
    /\ frame[t].tool = "dv_run_report"
    /\ frame[t].pc \in {"prepare", "create", "create_wait", "run", "run_wait",
                        "download", "download_wait"}
HoldsEntityClient(t) ==
    /\ frame[t].tool \in EntityTools
    /\ frame[t].pc \in {"entity_request", "entity_wait"}

\* C16: over the tool calls made one after the other, each of the two clients
\* is constructed at most once; once a handle is stored it never changes and
\* no further client of its kind is built, and every call that gets a client
\* holds the stored handle.
ClientBuiltAtMostOnce ==
    [][/\ clients_built' <= 1 /\ dv360_clients_built' <= 1
       /\ \A t \in Threads :
             /\ HoldsReportClient(t)' =>
                   /\ frame'[t].service = _bid_manager_service'
                   /\ _bid_manager_service' # 0
             /\ HoldsEntityClient(t)' =>
                   /\ frame'[t].service = _dv360_service'
                   /\ _dv360_service' # 0
       /\ _bid_manager_service # 0 =>
             /\ _bid_manager_service' = _bid_manager_service
             /\ clients_built' = clients_built
       /\ _dv360_service # 0 =>
             /\ _dv360_service' = _dv360_service
             /\ dv360_clients_built' = dv360_clients_built]_vars

\* C16 witness: the second call got the client an earlier call had stored,
\* building none itself.
StoredClientReusedWitness ==
    /\ calls = 2
    /\ HoldsReportClient(1)
    /\ ~frame[1].built
    /\ frame[1].service = 1
    /\ clients_built = 1

\* What one call alone computes from its arguments and from the responses
\* out1, out2, out3 to its create, run and download requests, as far as it
\* gets: the frame after n responses.
AloneAfter(a, outs, n) ==
    LET prepared == Prepare([IdleFrame EXCEPT !.tool = "dv_run_report",
                                              !.pc = "prepare", !.args = a])
        created == Created(prepared, outs[1])
        ran == Ran(created, outs[2])
    IN CASE n = 0 -> prepared
         [] n = 1 -> created
         [] n = 2 -> ran
         [] n = 3 -> Downloaded(ran, outs[3])
\* The responses in the log of a call, in the order they came.
OwnResponses(t) ==
    [n \in 1..(Len(frame[t].events) \div 2) |-> frame[t].events[2 * n].out]

\* C17: with two report calls interleaved in every way, the request a call
\* is waiting on is its own: the query built from its own arguments, the run
\* of the query id of its own create response, the download of the path of
\* its own run response; what it returns is what it would have returned alone
\* for its arguments and the responses to its own requests; and a step of one
\* call leaves the frame of the other as it was.
InvocationsIndependent ==
    /\ [](\A t \in Threads :
            LET f == frame[t]
                ev == f.events
                sent == ev[Len(ev)].body
            IN /\ f.pc = "create_wait" =>
                     sent = query_obj(AloneAfter(f.args, <<>>, 0))
               /\ f.pc = "run_wait" =>
                     sent.queryId = ev[Len(ev) - 1].out.value.queryId
               /\ f.pc = "download_wait" =>
                     sent = ev[Len(ev) - 1].out.value.metadata.googleCloudStoragePath
               /\ f.pc = "returned" =>
                     \/ /\ ev = <<>>
                        /\ f.result.error \in AcquisitionErrors
                        /\ f.result = [success |-> FALSE,
                                       error |-> f.result.error]
                     \/ f.result
                          = AloneAfter(f.args, OwnResponses(t), Len(ev) \div 2).result)
    /\ [][\E t \in Threads :
             \A u \in Threads \ {t} : frame'[u] = frame[u]]_vars

\* C17 witness: both calls are past their create request with different
\* query ids, and the first has returned its own report.
InterleavedReportsWitness ==
    /\ AllSucceeded(1)
    /\ frame[2].pc = "run_wait"
    /\ frame[1].args.report_name = "MCP Report"
    /\ frame[2].args.report_name = "Weekly"
    /\ frame[1].result.metadata.query_id = "q1"
    /\ frame[2].query_id = "q2"
    /\ frame[1].result.metadata.filters # <<>>
    /\ frame[2].filters = <<>>

\* The entity call of thread t has returned after an exception: that of its
\* request, or that of get_dv360_service before any request.
RequestRaised(t) ==
    /\ frame[t].events # <<>>
    /\ ~frame[t].events[Len(frame[t].events)].out.ok
AcquisitionRaised(t) ==
    /\ frame[t].events = <<>>
    /\ ~frame[t].result.success
    /\ frame[t].result.error \in AcquisitionErrors
\* str(e) of that exception.
ExceptionText(t) ==
    IF RequestRaised(t) THEN frame[t].events[Len(frame[t].events)].out.msg
    ELSE frame[t].result.error
SaysPermission(text) == InLower("permission", text) \/ Contains(text, "403")
SaysNotFound(text) == InLower("not found", text) \/ Contains(text, "404")
IsPermissionHint(m) == Len(m) > 18 /\ SubSeq(m, 1, 18) = "Permission denied."
IsNotFoundHint(m) == Contains(m, " not found") /\ ~IsPermissionHint(m)

\* C18: an entity tool that hit an exception returns success = false with the
\* text of the exception as error; the record carries a permission hint as
\* message when the text says permission (in any case) or 403, else a
\* not-found hint when it says not found (in any case) or 404, else no message.
EntityFailureClassified ==
    \A t \in Threads :
        LET r == frame[t].result
            text == ExceptionText(t)
        IN (/\ frame[t].tool \in EntityTools
            /\ frame[t].pc = "returned"
            /\ RequestRaised(t) \/ AcquisitionRaised(t)) =>
               /\ ~r.success
               /\ r.error = text
               /\ IF SaysPermission(text)
                  THEN /\ DOMAIN r = {"success", "error", "message"}
                       /\ IsPermissionHint(r.message)
                  ELSE IF SaysNotFound(text)
                  THEN /\ DOMAIN r = {"success", "error", "message"}
                       /\ IsNotFoundHint(r.message)
                  ELSE DOMAIN r = {"success", "error"}

\* C18 witness: dv_get_campaign met an error that says both 404 and
\* permission, and returned the permission hint.
PermissionBeforeNotFoundWitness ==
    /\ frame[1].tool = "dv_get_campaign"
    /\ frame[1].pc = "returned"
    /\ frame[1].result =
          [success |-> FALSE,
           error |-> "<HttpError 404 \"Not found or permission missing\">",
           message |-> "Permission denied. Ensure your service account "
                         \o "has access to this campaign."]

\* C19: main() reaches mcp.run only by a validation that stored a client; a
\* failed validation (a configuration error, or a failed construction) is
\* followed by nothing but sys.exit(1); no tool call starts unless the
\* transport runs, so none ever starts in a process whose validation failed,
\* and an exited process does nothing more.
TransportOnlyAfterValidation ==
    [][/\ (server # "serving" /\ server' = "serving") =>
             /\ server \in {"init", "building"}
             /\ _bid_manager_service' # 0
             /\ exit_status' = <<>>
       /\ (server = "init" /\ _bid_manager_service = 0 /\ ~CredentialCheck.ok) =>
             server' = "exited"
       /\ server = "building" => server' \in {"serving", "exited"}
       /\ (server # "exited" /\ server' = "exited") =>
             /\ exit_status' = <<1>>
             /\ _bid_manager_service' = 0
             /\ calls' = 0
             /\ \A t \in Threads : frame'[t].pc = "idle"
       /\ server = "exited" =>
             /\ server' = "exited" /\ exit_status' = exit_status
             /\ calls' = calls /\ frame' = frame
       /\ calls' # calls => server = "serving" /\ exit_status = <<>>]_vars

\* C19 witness: the blob is not JSON and the process has exited with status 1
\* before any tool call.
ExitedOnInvalidBlobWitness ==
    /\ SERVICE_ACCOUNT_JSON = "invalid"
    /\ server = "exited"
    /\ exit_status = <<1>>
    /\ calls = 0
    /\ \A t \in Threads : frame[t].pc = "idle"

\* In a process that serves without a usable credential blob (unset, or not
\* JSON), every finished call of dv_run_report or of an entity tool that
\* came to ask for its client has returned the record {success: False,
\* error: <text of the configuration error>}, possibly with a hint, having
\* sent no remote request; no call ends with an exception, none gets past the
\* acquisition of the client, and the process goes on serving.
BlobUnusable == SERVICE_ACCOUNT_JSON \in {"unset", "invalid"}
ConfigurationErrorText ==
    IF SERVICE_ACCOUNT_JSON = "unset"
    THEN "DV360_SERVICE_ACCOUNT environment variable not set. "
           \o "Please set it to your service account JSON credentials."
    ELSE "Invalid JSON in DV360_SERVICE_ACCOUNT environment variable: "
           \o "Expecting value: line 1 column 1 (char 0)"
\* dv_list_advertisers returns at line 331 before it asks for the client.
PartnerMissing(t) ==
    /\ frame[t].tool = "dv_list_advertisers"
    /\ frame[t].args.partner_id = PyNone
    /\ DEFAULT_PARTNER_ID = PyNone
LazyCredentialFailureReported ==
    (BlobUnusable /\ server = "serving" /\ _bid_manager_service = 0
       /\ _dv360_service = 0) =>
      /\ exit_status = <<>>
      /\ \A t \in Threads :
           /\ frame[t].pc \in {"idle", "get_service", "entity_start", "returned"}
           /\ frame[t].events = <<>>
           /\ ~frame[t].escaped
           /\ (frame[t].pc = "returned" /\ ~PartnerMissing(t)) =>
                /\ frame[t].tool \in EntityTools \cup {"dv_run_report"}
                /\ "success" \in DOMAIN frame[t].result
                /\ frame[t].result.success = FALSE
                /\ frame[t].result.error = ConfigurationErrorText
                /\ DOMAIN frame[t].result \subseteq {"success", "error", "message"}
\* C20: a configuration error met inside a tool call is reported as a failure
\* record, without a remote request, and the process keeps serving.
LazyCredentialFailureKeepsServing ==
    /\ LazyCredentialFailureReported
    /\ (BlobUnusable /\ calls > 0) =>
         server = "serving" /\ _bid_manager_service = 0 /\ _dv360_service = 0

\* C20 witness: the blob is not JSON; a first call has failed and the second,
\* dv_get_creative, has returned the configuration error without a request.
SecondLazyFailureWitness ==
    /\ SERVICE_ACCOUNT_JSON = "invalid"
    /\ server = "serving"
    /\ calls = 2
    /\ frame[1].tool = "dv_get_creative"
    /\ frame[1].pc = "returned"
    /\ frame[1].result.success = FALSE
    /\ frame[1].result.error = ConfigurationErrorText
    /\ frame[1].events = <<>>

\* The response of the request of a finished entity call.
LastResponse(t) == frame[t].events[Len(frame[t].events)].out.value
ListSucceeded(t) ==
    /\ frame[t].pc = "returned"
    /\ frame[t].tool \in ListTools
    /\ frame[t].result.success = TRUE

\* C21: a list tool that succeeded returns, under the key of its entities, a
\* list as long as the entity list of the response (empty when the response
\* has none), whose i-th entry holds for every output field the value the i-th
\* entity has under the field's key, or the field's default; count is the
\* length of that list; next_page_token is the nextPageToken of the response,
\* None when the response has none.
ListResultMirrorsResponse ==
    \A t \in Threads : ListSucceeded(t) =>
      LET tool == frame[t].tool
          response == LastResponse(t)
          remote == IF ListKey(tool) \in DOMAIN response
                    THEN response[ListKey(tool)] ELSE <<>>
          returned == frame[t].result[OutListKey(tool)]
          fields == ItemFields(tool)
      IN /\ frame[t].result.count = Len(returned)
         /\ Len(returned) = Len(remote)
         /\ \A i \in 1..Len(remote) :
              /\ DOMAIN returned[i] = {fields[k][1] : k \in 1..Len(fields)}
              /\ \A k \in 1..Len(fields) :
                   returned[i][fields[k][1]] =
                     IF fields[k][2] \in DOMAIN remote[i]
                     THEN remote[i][fields[k][2]] ELSE fields[k][3]
         /\ frame[t].result.next_page_token =
              IF "nextPageToken" \in DOMAIN response
              THEN response.nextPageToken ELSE PyNone

\* C21 witness: dv_list_line_items has returned the two line items of a
\* response in the order of the response, with the token of the next page.
TwoLineItemsListedWitness ==
    /\ frame[1].tool = "dv_list_line_items"
    /\ frame[1].pc = "returned"
    /\ frame[1].result.success = TRUE
    /\ frame[1].result.count = 2
    /\ frame[1].result.line_items[1].line_item_name = PyStr("First")
    /\ frame[1].result.line_items[2].line_item_name = PyStr("Second")
    /\ frame[1].result.line_items[2].line_item_id = PyNone
    /\ frame[1].result.next_page_token = PyStr("page2")

\* The partner id dv_list_advertisers is to use: the argument unless it is
\* None, else the value of DV360_PARTNER_ID, None when that is unset.
PartnerOfCall(t) ==
    IF frame[t].args.partner_id # PyNone THEN frame[t].args.partner_id
    ELSE DEFAULT_PARTNER_ID

\* C22: a call of dv_list_advertisers sends its request for the partner id
\* given (an empty string included), or for the one of the environment when
\* the argument is None, and names that partner in its success record; with
\* neither, it has returned {success: False, error, message} straight away,
\* with no client asked for or built and no request sent.
PartnerResolved ==
    \A t \in Threads :
      (frame[t].tool = "dv_list_advertisers" /\ frame[t].pc # "entity_start") =>
        IF PartnerOfCall(t) = PyNone
        THEN /\ frame[t].pc = "returned"
             /\ frame[t].result =
                  [success |-> FALSE,
                   error |-> "No partner_id provided and DV360_PARTNER_ID not set in .env file",
                   message |-> "Either provide partner_id parameter or set "
                                 \o "DV360_PARTNER_ID in your .env file"]
             /\ frame[t].events = <<>>
             /\ ~frame[t].built
             /\ frame[t].service = Locals.service
        ELSE /\ \A i \in 1..Len(frame[t].events) :
                  frame[t].events[i].ev = "request" =>
                    frame[t].events[i].body.partnerId = PartnerOfCall(t).v
             /\ frame[t].pc = "entity_wait" => Len(frame[t].events) = 1
             /\ (frame[t].pc = "returned" /\ frame[t].result.success = TRUE) =>
                  frame[t].result.partner_id = PartnerOfCall(t).v

\* C22 witness: called without partner_id in a process whose environment
\* names partner 900, the tool has listed the advertisers of partner 900.
DefaultPartnerUsedWitness ==
    /\ frame[1].tool = "dv_list_advertisers"
    /\ frame[1].pc = "returned"
    /\ frame[1].args.partner_id = PyNone
    /\ DEFAULT_PARTNER_ID = PyStr("900")
    /\ frame[1].result.success = TRUE
    /\ frame[1].result.partner_id = "900"
    /\ frame[1].events[1].body.partnerId = "900"

\* C23: the test of the handle and its assignment are separate steps with
\* nothing between them that excludes another call.  A call goes on to
\* construct only after it saw the handle unset, but once there it constructs
\* and stores a client whatever the handle has become meanwhile: every
\* construction that succeeds adds a client and overwrites the handle, also
\* when another call has stored one since the test.
CheckThenSetUnguarded ==
    [][\A t \in Threads :
          /\ (frame[t].pc = "get_service" /\ frame'[t].pc = "build_service") =>
                _bid_manager_service = 0
          /\ (frame[t].pc = "build_service" /\ frame'[t].pc = "prepare") =>
                /\ clients_built' = clients_built + 1
                /\ _bid_manager_service' = clients_built'
                /\ frame'[t].service = clients_built'
                /\ frame'[t].built]_vars

\* C23 witness: two calls in progress hold two different clients, both
\* constructed by them; the handle is the one stored last.
ClientConstructedTwiceWitness ==
    /\ clients_built = 2
    /\ HoldsReportClient(1) /\ HoldsReportClient(2)
    /\ frame[1].built /\ frame[2].built
    /\ frame[1].service # frame[2].service
    /\ _bid_manager_service = 2

\* C24: the body of every create request is the query specification with
\* title report_name, range CUSTOM_DATES from the formatted start date to the
\* formatted end date, format CSV, type STANDARD, the normalized dimensions as
\* groupBys, the output of prepare_filters as filters, the normalized metrics
\* as metrics and frequency ONE_TIME, and nothing else; every run request has
\* synchronous = True and the queryId of the response of the create before it.
QuerySpecificationFixed ==
    \A t \in Threads :
      LET ev == frame[t].events
          a == frame[t].args
      IN \A i \in 1..Len(ev) :
           /\ (ev[i].ev = "request" /\ ev[i].op = "create") =>
                LET q == ev[i].body
                    fields == prepare_dimensions_and_metrics(a.dimensions, a.metrics)
                IN /\ DOMAIN q = {"metadata", "params", "schedule"}
                   /\ DOMAIN q.metadata = {"title", "dataRange", "format"}
                   /\ DOMAIN q.metadata.dataRange =
                        {"range", "customStartDate", "customEndDate"}
                   /\ DOMAIN q.params = {"type", "groupBys", "filters", "metrics"}
                   /\ DOMAIN q.schedule = {"frequency"}
                   /\ q.metadata.format = "CSV"
                   /\ q.metadata.title = a.report_name
                   /\ q.metadata.dataRange.range = "CUSTOM_DATES"
                   /\ Returned(q.metadata.dataRange.customStartDate)
                        = format_date_for_api(a.start_date)
                   /\ Returned(q.metadata.dataRange.customEndDate)
                        = format_date_for_api(a.end_date)
                   /\ q.params.type = "STANDARD"
                   /\ q.params.groupBys = fields[1]
                   /\ q.params.metrics = fields[2]
                   /\ q.params.filters =
                        prepare_filters(a.advertiser_ids, a.campaign_ids,
                                        a.insertion_order_ids, a.line_item_ids)
                   /\ q.schedule.frequency = "ONE_TIME"
           /\ (ev[i].ev = "request" /\ ev[i].op = "run") =>
                /\ DOMAIN ev[i].body = {"queryId", "synchronous"}
                /\ ev[i].body.synchronous = TRUE
                /\ \E j \in 1..(i - 1) :
                     /\ ev[j].op = "create" /\ ev[j].ev = "end"
                     /\ ev[i].body.queryId = ev[j].out.value.queryId

\* C24 witness: the run request for query q2, the id the create response
\* gave, is out, after a create request titled Weekly with a filter list.
RunOfCreatedQueryWitness ==
    /\ frame[1].pc = "run_wait"
    /\ frame[1].args.report_name = "Weekly"
    /\ frame[1].events[1].body.metadata.title = "Weekly"
    /\ frame[1].events[1].body.params.filters # <<>>
    /\ frame[1].events[2].out.value.queryId = "q2"
    /\ frame[1].events[3].body = [queryId |-> "q2", synchronous |-> TRUE]

\* C25: the request of a list tool carries pageSize = page_size when
\* page_size is 100 or less (zero and negative numbers too) and pageSize = 100
\* when it is more; the request of a get tool carries no pageSize.
PageSizeCappedOnly ==
    \A t \in Threads :
      \A i \in 1..Len(frame[t].events) :
        (frame[t].tool \in EntityTools /\ frame[t].events[i].ev = "request") =>
          LET body == frame[t].events[i].body
              page_size == frame[t].args.page_size
          IN IF frame[t].tool \in ListTools
             THEN /\ "pageSize" \in DOMAIN body
                  /\ body.pageSize <= 100
                  /\ page_size <= 100 => body.pageSize = page_size
                  /\ page_size > 100 => body.pageSize = 100
             ELSE "pageSize" \notin DOMAIN body

\* C25 witness: dv_list_campaigns called with page_size = -5 has sent
\* pageSize = -5.
NegativePageSizeSentWitness ==
    /\ frame[1].tool = "dv_list_campaigns"
    /\ frame[1].pc = "entity_wait"
    /\ frame[1].args.page_size = -5
    /\ frame[1].events[1].body.pageSize = -5

\* format_date_for_api raises for the start date or for the end date.
DateMalformed(t) ==
    \/ ~format_date_for_api(frame[t].args.start_date).ok
    \/ ~format_date_for_api(frame[t].args.end_date).ok

\* C26: a call of dv_run_report whose start or end date is malformed never
\* has a remote request to its name, neither create nor run nor download,
\* at any moment of the call; it goes from the client to the preparation
\* and from there to its failure record.
NoRequestAfterFailedPreparation ==
    \A t \in Threads :
      (frame[t].tool = "dv_run_report" /\ DateMalformed(t)) =>
        /\ frame[t].events = <<>>
        /\ frame[t].pc \in {"get_service", "build_service", "prepare", "returned"}
        /\ frame[t].pc = "returned" =>
             /\ frame[t].result.success = FALSE
             /\ DOMAIN frame[t].result = {"success", "error"}

\* C26 witness: the call got its client, the end date "2025-01-31-" made the
\* preparation fail, and the call has returned the failure with no request.
EndDateFailedBeforeRequestWitness ==
    /\ frame[1].tool = "dv_run_report"
    /\ frame[1].pc = "returned"
    /\ _bid_manager_service # 0
    /\ format_date_for_api(frame[1].args.start_date).ok
    /\ ~format_date_for_api(frame[1].args.end_date).ok
    /\ frame[1].result.error = format_date_for_api(frame[1].args.end_date).msg
    /\ frame[1].events = <<>>

\* What a run response says: its state if it has one, whether it has a
\* report id and a storage path.
HasKeys(d, k1, k2) == k1 \in DOMAIN d /\ k2 \in DOMAIN d[k1]
HasState(resp) == HasKeys(resp, "metadata", "status")
                    /\ "state" \in DOMAIN resp.metadata.status
NotFailed(resp) == HasState(resp) /\ resp.metadata.status.state # "FAILED"
HasReport(resp) ==
    HasKeys(resp, "key", "reportId") /\ HasKeys(resp, "metadata", "googleCloudStoragePath")
\* The call of thread t has got the response of its run request.
RunAnswered(t) ==
    /\ frame[t].tool = "dv_run_report"
    /\ Len(frame[t].events) >= 4
    /\ frame[t].events[4].out.ok
DownloadAttempted(t) == frame[t].pc = "download" \/ Len(frame[t].events) >= 5

\* C27: once the run request is answered, the call goes on to the download,
\* of the storage path of the response, exactly when the response has a state
\* other than FAILED (DONE, RUNNING, QUEUED alike), a report id and a storage
\* path; a response in a state other than FAILED that lacks the id or the
\* path ends in {success: False, error}; no call succeeds without a download.
NonFailedRunDownloaded ==
    \A t \in Threads :
      /\ RunAnswered(t) =>
           LET resp == frame[t].events[4].out.value IN
           /\ DownloadAttempted(t) <=> (NotFailed(resp) /\ HasReport(resp))
           /\ Len(frame[t].events) >= 5 =>
                frame[t].events[5].body = resp.metadata.googleCloudStoragePath
           /\ (NotFailed(resp) /\ ~HasReport(resp)) =>
                /\ frame[t].pc = "returned"
                /\ frame[t].result.success = FALSE
                /\ DOMAIN frame[t].result = {"success", "error"}
      /\ (frame[t].tool = "dv_run_report" /\ frame[t].pc = "returned"
            /\ frame[t].result.success = TRUE) =>
           /\ RunAnswered(t)
           /\ Len(frame[t].events) = 6
           /\ frame[t].events[5].op = "download"

\* C27 witness: the run response said RUNNING, the report was downloaded
\* all the same, and the call has returned success.
RunningReportDownloadedWitness ==
    /\ frame[1].pc = "returned"
    /\ frame[1].tool = "dv_run_report"
    /\ frame[1].result.success = TRUE
    /\ frame[1].events[4].out.value.metadata.status.state = "RUNNING"
    /\ frame[1].events[5].body = "gs://bucket/r2.csv"

\* The call of thread t has returned a failure record.
ReportFailure(t) ==
    /\ frame[t].tool = "dv_run_report"
    /\ frame[t].pc = "returned"
    /\ frame[t].result.success = FALSE
\* The create request of the call was answered with a query id.
QueryCreated(t) ==
    /\ Len(frame[t].events) >= 2
    /\ frame[t].events[2].out.ok
    /\ "queryId" \in DOMAIN frame[t].events[2].out.value
RunSaidFailed(t) ==
    /\ RunAnswered(t)
    /\ HasState(frame[t].events[4].out.value)
    /\ frame[t].events[4].out.value.metadata.status.state = "FAILED"

\* C28: a failure record of dv_run_report has the key query_id exactly when
\* the run was answered with state FAILED, and then it is the id create
\* returned; every other failure record is {success, error} alone, also when
\* a query had been created before the failure (the run request raised, the
\* response lacked a field, the download or the decoding failed).
QueryIdOnlyInFailedRun ==
    \A t \in Threads : ReportFailure(t) =>
      IF RunSaidFailed(t)
      THEN /\ DOMAIN frame[t].result = {"success", "error", "query_id"}
           /\ frame[t].result.query_id = frame[t].events[2].out.value.queryId
      ELSE DOMAIN frame[t].result = {"success", "error"}

\* C28 witness: query q1 was created and run, the download failed, and the
\* failure record returned does not name the query.
LateFailureWithoutQueryIdWitness ==
    /\ ReportFailure(1)
    /\ QueryCreated(1)
    /\ frame[1].events[2].out.value.queryId = "q1"
    /\ Len(frame[1].events) = 6
    /\ ~frame[1].events[6].out.ok
    /\ DOMAIN frame[1].result = {"success", "error"}

\* A step of thread t in which its getter raised: the call goes from the
\* acquisition of its client to the failure record.
ReportGetterFails(t) ==
    /\ frame[t].pc \in {"get_service", "build_service"}
    /\ frame'[t].pc = "returned"
EntityGetterFails(t) ==
    /\ \/ frame[t].pc = "entity_build"
       \/ frame[t].pc = "entity_start" /\ ~PartnerMissing(t)
    /\ frame'[t].pc = "returned"

\* C29: a getter that raises (no blob, a blob that is not JSON, or a failed
\* construction) leaves its handle unset, builds nothing and leaves the other
\* handle as it was; nothing records the failure, so a later call that finds
\* the handle unset examines the credentials again and, when they are
\* usable, goes on to construct.
FailedConstructionNotStored ==
    [][\A t \in Threads :
          /\ ReportGetterFails(t) =>
                /\ _bid_manager_service = 0 /\ _bid_manager_service' = 0
                /\ UNCHANGED <<clients_built, entity_globals>>
          /\ EntityGetterFails(t) =>
                /\ _dv360_service = 0 /\ _dv360_service' = 0
                /\ UNCHANGED <<dv360_clients_built, _bid_manager_service,
                               clients_built>>
          /\ (frame[t].pc = "get_service" /\ frame'[t] # frame[t]
                /\ _bid_manager_service = 0) =>
                IF CredentialCheck.ok THEN frame'[t].pc = "build_service"
                ELSE /\ frame'[t].pc = "returned"
                     /\ frame'[t].result.error = CredentialCheck.msg
          /\ (frame[t].pc = "entity_start" /\ frame'[t] # frame[t]
                /\ ~PartnerMissing(t) /\ _dv360_service = 0) =>
                IF CredentialCheck.ok THEN frame'[t].pc = "entity_build"
                ELSE /\ frame'[t].pc = "returned"
                     /\ frame'[t].result.error = CredentialCheck.msg]_vars

\* C29 witness: no blob is set; after a first call, a second one,
\* dv_list_campaigns, has met the same configuration error, and both handles
\* are still unset with no client built.
SecondCallFailsAfreshWitness ==
    /\ SERVICE_ACCOUNT_JSON = "unset"
    /\ calls = 2
    /\ frame[1].tool = "dv_list_campaigns"
    /\ frame[1].pc = "returned"
    /\ frame[1].result.error = CredentialCheck.msg
    /\ _bid_manager_service = 0 /\ _dv360_service = 0
    /\ clients_built = 0 /\ dv360_clients_built = 0

=============================================================================
